---- MODULE Spec2Model ----
(***************************************************************************)
(* Verification model of the image restoration / enhancement repository.   *)
(*                                                                         *)
(*  - SpecPipeline : src/src/pipeline.py called sequentially (model slots, *)
(*                   apply_enhancement, apply_restoration)                 *)
(*  - SpecEntry    : verify_image, process_image_for_gradio and            *)
(*                   image_enhancement_pipeline with their metrics         *)
(*  - SpecThreads  : load_srcnn_model / load_realesrgan_model called from  *)
(*                   concurrent request threads (app.run(threaded=True))   *)
(*  - SpecApp      : src/app.py process_single_image                      *)
(*  - SpecOperators: single operators applied to pixel values            *)
(*  - SpecMetrics  : quality metrics computed on rows of pixels          *)
(*  - SpecFiles    : the tools that read and write files (app_simple.py,  *)
(*                   process_image_cli.py, generate_dataset.py,           *)
(*                   dataset.py)                                          *)
(*  - Spec         : a process running any one of these programs          *)
(*                                                                         *)
(* Images are modelled by their numpy shape tuple (<<h, w>> or             *)
(* <<h, w, c>>); an operation either returns a shape or raises.            *)
(***************************************************************************)
EXTENDS Integers, Sequences, FiniteSets, TLC

VARIABLES
    program,            \* which program this process runs; fixed for the life of the process
    _srcnn_model,       \* pipeline.py global _srcnn_model
    _realesrgan_model,  \* pipeline.py global _realesrgan_model
    srcnn_attempts,     \* number of load_model_checkpoint calls made so far
    esrgan_attempts,    \* number of RealESRGANer constructions attempted so far
    calls,              \* number of pipeline calls made so far
    last,               \* the last pipeline call: its name, arguments and outcome
    pc,                 \* per request thread: position inside load_*_model
    fn,                 \* per request thread: the load function it is running
    loaded,             \* per request thread: the instance built by its own load
    ret,                \* per request thread: the value returned to the caller
    request,            \* app.py: the request given to process_single_image
    response,           \* app.py: the record process_single_image returned
    temp_uploads,       \* app.py: the image written to temp_uploads/processed_<name>
    applied,            \* the last direct application of an operator to pixel data
    measured,           \* the last computation of quality metrics on pixel data
    files               \* the last run of a tool that reads or writes image files

pipeline_vars == <<_srcnn_model, _realesrgan_model, srcnn_attempts, esrgan_attempts, calls, last>>
thread_vars == <<pc, fn, loaded, ret>>
app_vars == <<request, response, temp_uploads>>
operator_vars == <<applied>>
tool_vars == <<measured, files>>
vars == <<program, pipeline_vars, thread_vars, app_vars, operator_vars, tool_vars>>

----------------------------------------------------------------------------
(* Bounds *)

MaxDim == 2
MaxCalls == 2
NThreads == 2
MaxCount == 7
MaxWidth == 4

----------------------------------------------------------------------------
(* Values *)

\* Python None in a model slot
None == [id |-> 0, scale_factor |-> 0]

\* the scale factors the interface documents (apply_enhancement docstring)
ScaleFactors == {2, 4}

\* numpy shapes of 3-channel images
Shapes3 == {<<h, w, 3>> : h \in 1..MaxDim, w \in 1..MaxDim}

\* numpy shapes verify_image accepts: 2-D, H x W x 1, H x W x 3
Shapes == Shapes3 \cup {<<h, w>> : h \in 1..MaxDim, w \in 1..MaxDim}
                  \cup {<<h, w, 1>> : h \in 1..MaxDim, w \in 1..MaxDim}

\* outcome of an image operation: a shape, or an exception
Ok(shape) == [raised |-> FALSE, shape |-> shape]
Raise == [raised |-> TRUE, shape |-> <<>>]

\* a value of a metrics field: a number, None, or a text
Num(n) == [kind |-> "number", num |-> n, text |-> ""]
NoneValue == [kind |-> "None", num |-> 0, text |-> ""]
Text(t) == [kind |-> "text", num |-> 0, text |-> t]

\* what torch / the file system hold for a checkpoint path at load time
Missing == [exists |-> FALSE, model_name |-> "", scale_factor |-> 0]
Checkpoints == {Missing} \cup
    [exists : {TRUE}, model_name : {"SRCNN", "Unknown"}, scale_factor : ScaleFactors]

ModelPaths == {"model/srcnn_best.pth", "model/other.pth"}
Devices == {"cpu", "cuda"}
Methods == {"opencv", "srcnn", "realesrgan"}

\* the method names of the web form and of the style list
AppMethods == {"opencv", "srcnn", "real-esrgan", "gfpgan", "beauty_face",
               "perfect_enhancement", "black_white", "vintage_filters"}

\* every name a caller can pass as `method` to apply_enhancement
MethodNames == Methods \cup AppMethods

\* enhancement_type as the entry points receive it
EnhancementTypes == {"restauracion", "enhancement", "otro"}

----------------------------------------------------------------------------
(* src/src/models.py *)

\* load_model_checkpoint: raises when the file is missing or names an unknown
\* model; otherwise builds a new model with the checkpoint's scale_factor.
\* id distinguishes instances (Python object identity).
load_model_checkpoint(ckpt, id) ==
    IF ~ckpt.exists THEN [raised |-> TRUE, model |-> None]
    ELSE IF ckpt.model_name \notin {"SRCNN", "EnhancedSRCNN"} THEN [raised |-> TRUE, model |-> None]
    ELSE [raised |-> FALSE, model |-> [id |-> id, scale_factor |-> ckpt.scale_factor]]

\* SRCNN.forward / EnhancedSRCNN.forward on a (1, 3, H, W) tensor:
\* F.interpolate by the model's own scale_factor, convolutions keep the size
forward(model, shape) == <<shape[1] * model.scale_factor, shape[2] * model.scale_factor, 3>>

----------------------------------------------------------------------------
(* OpenCV primitives, on shapes *)

\* cv2.cvtColor with a BGR/RGB/LAB/YUV source code: needs a 3-channel array
cvtColor3(shape) == IF Len(shape) = 3 /\ shape[3] = 3 THEN Ok(shape) ELSE Raise

\* cv2.resize(image, (new_w, new_h)): keeps the channels; an H x W x 1 array comes back 2-D
resize(shape, new_w, new_h) ==
    IF new_w < 1 \/ new_h < 1 THEN Raise
    ELSE IF Len(shape) = 3 /\ shape[3] = 3 THEN Ok(<<new_h, new_w, 3>>)
    ELSE Ok(<<new_h, new_w>>)

\* run op on the shape of r unless r already raised
Then(r, op(_)) == IF r.raised THEN Raise ELSE op(r.shape)

----------------------------------------------------------------------------
(* src/src/utils/preprocessing.py and postprocessing.py, on shapes *)

apply_color_correction(shape) == cvtColor3(shape)

\* indexes channels 0, 1, 2 of a 3-D array
apply_white_balance(shape) == IF Len(shape) = 3 /\ shape[3] >= 3 THEN Ok(shape) ELSE Raise

apply_clahe(shape) == cvtColor3(shape)

enhance_contrast_adaptive(shape) == apply_clahe(shape)

apply_hdr_tone_mapping(shape) == Ok(shape)

\* cv2.filter2D and cv2.addWeighted keep the shape
apply_sharpening(shape) == Ok(shape)

apply_adaptive_sharpening(shape) == Then(cvtColor3(shape), apply_sharpening)

\* cv2.bilateralFilter accepts 1- and 3-channel 8-bit images
apply_bilateral_denoise(shape) == Ok(shape)

\* the opening branch writes result[:, :, i] for i in 0..2
apply_morphological_operations(shape) == IF Len(shape) = 3 /\ shape[3] >= 3 THEN Ok(shape) ELSE Raise

apply_compression_artifact_reduction(shape) == Ok(shape)

apply_edge_enhancement(shape) == cvtColor3(shape)

final_contrast_adjustment(shape) == cvtColor3(shape)

----------------------------------------------------------------------------
(* src/src/utils/imagen.py *)

\* what a caller can hand over as `image`: something that is not a numpy
\* array, or an array of one to four dimensions, empty ones included
NotArray == [ndarray |-> FALSE, shape |-> <<>>]
Array(shape) == [ndarray |-> TRUE, shape |-> shape]

ArgShapes ==
    {<<h>> : h \in 0..MaxDim} \cup
    {<<h, w>> : h \in 0..MaxDim, w \in 0..MaxDim} \cup
    {<<h, w, c>> : h \in 0..MaxDim, w \in 0..MaxDim, c \in 0..4} \cup
    {<<h, w, 3, 1>> : h \in 0..MaxDim, w \in 0..MaxDim}

Arguments == {NotArray} \cup {Array(shape) : shape \in ArgShapes}

\* ndarray.size: the product of the dimensions
RECURSIVE size(_)
size(shape) == IF shape = <<>> THEN 1 ELSE Head(shape) * size(Tail(shape))

\* verify_image without its last test (image.size == 0)
verify_image_unsized(image) ==
    IF ~image.ndarray THEN [raised |-> TRUE]
    ELSE IF Len(image.shape) \notin {2, 3} THEN [raised |-> TRUE]
    ELSE IF Len(image.shape) = 3 /\ image.shape[3] \notin {1, 3} THEN [raised |-> TRUE]
    ELSE [raised |-> FALSE]

\* verify_image: the four tests in the order of the code, each raising ValueError
verify_image(image) ==
    IF ~image.ndarray THEN [raised |-> TRUE]
    ELSE IF Len(image.shape) \notin {2, 3} THEN [raised |-> TRUE]
    ELSE IF Len(image.shape) = 3 /\ image.shape[3] \notin {1, 3} THEN [raised |-> TRUE]
    ELSE IF size(image.shape) = 0 THEN [raised |-> TRUE]
    ELSE [raised |-> FALSE]

\* normalize_image on the uint8 arrays the operators return: the array itself
normalize_image(shape) == shape

----------------------------------------------------------------------------
(* src/src/utils/metrics.py, on shapes *)

\* the first lines of every metric: a processed array of another shape is
\* resized to the width and height of the original
SameSize(original, processed) ==
    IF original # processed THEN resize(processed, original[2], original[1]) ELSE Ok(processed)

\* calculate_psnr: a float (inf included) whenever the arrays can be
\* subtracted after the resize; the measured value is represented by one number
calculate_psnr(original, processed) ==
    LET resized == SameSize(original, processed)
    IN  IF resized.raised \/ resized.shape # original
        THEN [raised |-> TRUE, value |-> NoneValue]
        ELSE [raised |-> FALSE, value |-> Num(30)]

\* calculate_ssim: the Gaussian window of 11 x 11 is applied with reflected
\* borders, whatever the size of the arrays; there is no test of the size
calculate_ssim(original, processed) ==
    LET resized == SameSize(original, processed)
    IN  IF resized.raised \/ resized.shape # original
        THEN [raised |-> TRUE, value |-> NoneValue]
        ELSE [raised |-> FALSE, value |-> Num(1)]

NoMetrics == [psnr |-> NoneValue, ssim |-> NoneValue]

\* get_comprehensive_metrics: psnr, ssim (mse, rmse, histogram similarity and
\* edge preservation follow the same resize-then-compute pattern)
get_comprehensive_metrics(original, processed) ==
    LET psnr == calculate_psnr(original, processed)
        ssim == calculate_ssim(original, processed)
    IN  IF psnr.raised \/ ssim.raised
        THEN [raised |-> TRUE, metrics |-> NoMetrics]
        ELSE [raised |-> FALSE, metrics |-> [psnr |-> psnr.value, ssim |-> ssim.value]]

----------------------------------------------------------------------------
(* src/src/pipeline.py: the lazily loaded model slots *)

\* outcome of a load_*_model call: the slot afterwards, the value returned,
\* whether a load was attempted, and whether an exception left the function
Loaded(slot, r, attempted) == [slot |-> slot, ret |-> r, attempted |-> attempted, raised |-> FALSE]

\* load_srcnn_model without its try/except: a failed load leaves the function as an exception
load_srcnn_model_unguarded(slot, model_path, device, ckpt, id) ==
    IF slot # None
    THEN Loaded(slot, slot, FALSE)
    ELSE LET checkpoint == load_model_checkpoint(ckpt, id)
         IN  IF checkpoint.raised
             THEN [slot |-> slot, ret |-> None, attempted |-> TRUE, raised |-> TRUE]
             ELSE Loaded(checkpoint.model, checkpoint.model, TRUE)

\* load_srcnn_model with the cache test keyed on the default path: any other
\* model_path loads again
load_srcnn_model_keyed(slot, model_path, device, ckpt, id) ==
    IF slot # None /\ model_path = "model/srcnn_best.pth"
    THEN Loaded(slot, slot, FALSE)
    ELSE LET checkpoint == load_model_checkpoint(ckpt, id)
         IN  IF checkpoint.raised
             THEN Loaded(slot, None, TRUE)
             ELSE Loaded(checkpoint.model, checkpoint.model, TRUE)

\* load_srcnn_model(model_path, device) started with the slot holding `slot`,
\* while the file system holds `ckpt` at model_path; id names the instance a
\* successful load creates.  The except clause absorbs a failed load.
load_srcnn_model(slot, model_path, device, ckpt, id) ==
    IF slot # None
    THEN Loaded(slot, slot, FALSE)
    ELSE LET checkpoint == load_model_checkpoint(ckpt, id)
         IN  IF checkpoint.raised
             THEN Loaded(slot, None, TRUE)
             ELSE Loaded(checkpoint.model, checkpoint.model, TRUE)

\* load_realesrgan_model() started with the slot holding `slot`; pkg_ok says
\* whether the realesrgan / basicsr imports and the RealESRGANer constructor
\* succeed.  The upsampler is built with netscale 4.
load_realesrgan_model(slot, pkg_ok, id) ==
    IF slot # None
    THEN Loaded(slot, slot, FALSE)
    ELSE IF ~pkg_ok
         THEN Loaded(slot, None, TRUE)
         ELSE LET upsampler == [id |-> id, scale_factor |-> 4]
              IN  Loaded(upsampler, upsampler, TRUE)

\* apply_srcnn_enhancement, r being the outcome of its load_srcnn_model() call
srcnn_enhancement(r, shape, scale_factor) ==
    LET model == r.ret IN
    IF r.raised THEN Raise
    ELSE IF model = None
    THEN resize(shape, shape[2] * scale_factor, shape[1] * scale_factor)
    ELSE LET rgb_image == cvtColor3(shape)
         IN  IF rgb_image.raised THEN Raise ELSE Ok(forward(model, shape))

\* RealESRGANer.enhance(rgb_image, outscale): the output is resized to the
\* input size times outscale
enhance(upsampler, shape, outscale) == <<shape[1] * outscale, shape[2] * outscale, 3>>

\* apply_realesrgan_enhancement, r being the outcome of its load_realesrgan_model() call
realesrgan_enhancement(r, shape, scale_factor) ==
    LET upsampler == r.ret IN
    IF r.raised THEN Raise
    ELSE IF upsampler = None
    THEN resize(shape, shape[2] * scale_factor, shape[1] * scale_factor)
    ELSE LET rgb_image == cvtColor3(shape)
         IN  IF rgb_image.raised THEN Raise ELSE Ok(enhance(upsampler, shape, scale_factor))

\* apply_enhancement, r being the outcome of the load its method makes:
\* pre-processing, super-resolution by method, post-processing
enhancement(r, shape, scale_factor, method) ==
    LET pre == Then(Then(apply_color_correction(shape), apply_white_balance), enhance_contrast_adaptive)
        Upscale(s) == IF method = "srcnn" THEN srcnn_enhancement(r, s, scale_factor)
                      ELSE IF method = "realesrgan" THEN realesrgan_enhancement(r, s, scale_factor)
                      ELSE resize(s, s[2] * scale_factor, s[1] * scale_factor)
    IN  Then(Then(Then(pre, Upscale), apply_adaptive_sharpening), apply_hdr_tone_mapping)

\* apply_restoration: the operator chain in the order of the code
apply_restoration(shape) ==
    Then(Then(Then(Then(Then(Then(Then(Then(
        apply_color_correction(shape),
        apply_white_balance),
        apply_bilateral_denoise),
        apply_morphological_operations),
        enhance_contrast_adaptive),
        apply_compression_artifact_reduction),
        apply_adaptive_sharpening),
        apply_edge_enhancement),
        final_contrast_adjustment)

\* the branch of the if / elif / else of apply_enhancement that serves a method name
enhancement_branch(method) ==
    IF method = "srcnn" THEN "srcnn"
    ELSE IF method = "realesrgan" THEN "realesrgan"
    ELSE "else"

\* the interpolation that produces the upscaled image of apply_enhancement, r
\* being the outcome of the load its method makes
upscale_kernel(r, method) ==
    IF enhancement_branch(method) = "srcnn"
    THEN IF r.ret = None THEN "INTER_CUBIC" ELSE "SRCNN.forward (bilinear)"
    ELSE IF enhancement_branch(method) = "realesrgan"
    THEN IF r.ret = None THEN "INTER_CUBIC" ELSE "RealESRGANer.enhance"
    ELSE "INTER_CUBIC"

----------------------------------------------------------------------------
(* src/src/pipeline.py: the entry points *)

\* outcome of an entry point: the image returned, the calls made in order,
\* the array handed to verify_image and to the operators, metrics and report
Entry(raised, shape, trace, bgr_image, metrics, rep) ==
    [raised |-> raised, shape |-> shape, trace |-> trace, bgr_image |-> bgr_image,
     metrics |-> metrics, report |-> rep]

\* the PSNR and SSIM lines of the report: the f-string prints the two floats
\* with 2 and 4 decimals
report(metrics) == [psnr |-> Text("<psnr> dB"), ssim |-> Text("<ssim>")]

\* the name of the processing call an enhancement_type selects
Processing(enhancement_type) ==
    IF enhancement_type = "restauracion" THEN "apply_restoration" ELSE "apply_enhancement"

\* process_image_for_gradio(image, enhancement_type, enhancement_method,
\* scale_factor) on an array of shape `image`, r being the outcome of the load
\* apply_enhancement makes.  Only an H x W x 3 array goes through cvtColor;
\* any other array is passed on as it is.
process_image_for_gradio(r, image, enhancement_type, enhancement_method, scale_factor) ==
    LET bgr_image == image
        t1 == (IF Len(image) = 3 /\ image[3] = 3 THEN <<"cvtColor">> ELSE <<>>) \o <<"verify_image">>
        t2 == Append(t1, Processing(enhancement_type))
        Stop(trace) == Entry(TRUE, <<>>, trace, bgr_image, NoMetrics, NoMetrics)
    IN  IF verify_image(Array(bgr_image)).raised THEN Stop(t1)
        ELSE IF enhancement_type \notin {"restauracion", "enhancement"} THEN Stop(t1)
        ELSE LET processed_bgr == IF enhancement_type = "restauracion"
                                  THEN apply_restoration(bgr_image)
                                  ELSE enhancement(r, bgr_image, scale_factor, enhancement_method)
             IN  IF processed_bgr.raised THEN Stop(t2)
                 ELSE LET processed_rgb == cvtColor3(processed_bgr.shape)
                          m == get_comprehensive_metrics(bgr_image, processed_bgr.shape)
                      IN  IF processed_rgb.raised THEN Stop(Append(t2, "cvtColor"))
                          ELSE IF m.raised THEN Stop(t2 \o <<"cvtColor", "get_comprehensive_metrics">>)
                          ELSE Entry(FALSE, processed_rgb.shape,
                                     t2 \o <<"cvtColor", "get_comprehensive_metrics">>,
                                     bgr_image, m.metrics, report(m.metrics))

\* image_enhancement_pipeline(image_path, ...): cv2.imread gives None or a BGR
\* array of shape `image`; the original is a copy taken before verify_image
image_enhancement_pipeline(r, readable, image, enhancement_type, enhancement_method, scale_factor) ==
    LET original == image
        t1 == <<"imread", "verify_image">>
        t2 == Append(t1, Processing(enhancement_type))
        Stop(trace) == Entry(TRUE, <<>>, trace, image, NoMetrics, NoMetrics)
    IN  IF ~readable THEN Stop(<<"imread">>)
        ELSE IF verify_image(Array(image)).raised THEN Stop(t1)
        ELSE IF enhancement_type \notin {"restauracion", "enhancement"} THEN Stop(t1)
        ELSE LET processed == IF enhancement_type = "restauracion"
                              THEN apply_restoration(image)
                              ELSE enhancement(r, image, scale_factor, enhancement_method)
             IN  IF processed.raised THEN Stop(t2)
                 ELSE LET m == get_comprehensive_metrics(original, normalize_image(processed.shape))
                      IN  IF m.raised THEN Stop(t2 \o <<"normalize_image", "get_comprehensive_metrics">>)
                          ELSE Entry(FALSE, normalize_image(processed.shape),
                                     t2 \o <<"normalize_image", "get_comprehensive_metrics">>,
                                     image, m.metrics, report(m.metrics))

----------------------------------------------------------------------------
(* Sequential calls of the pipeline functions *)

\* the record of a pipeline call: its name and arguments (ndarray: whether the
\* image argument is a numpy array), the slot before and the model obtained,
\* the outcome, and for the entry points the calls they made in order, the
\* array handed to the operators, the metrics and the report
NoCall == [op |-> "none", ndarray |-> TRUE, shape |-> <<>>, scale_factor |-> 0, method |-> "",
           enhancement_type |-> "",
           model_was |-> None, model |-> None, attempted |-> FALSE, result |-> Raise,
           branch |-> "", kernel |-> "",
           trace |-> <<>>, bgr_image |-> <<>>, metrics |-> NoMetrics, report |-> NoMetrics]

ThreadInit ==
    /\ pc = [t \in 1..NThreads |-> "idle"]
    /\ fn = [t \in 1..NThreads |-> ""]
    /\ loaded = [t \in 1..NThreads |-> None]
    /\ ret = [t \in 1..NThreads |-> None]

NoRequest == [used |-> FALSE]

AppInit ==
    /\ request = NoRequest
    /\ response = NoRequest
    /\ temp_uploads = <<>>

\* the record of a direct application of an operator.  For the blend and
\* colour operators: one pixel value, the value of its eight neighbours, the
\* value the inner filter gives for the pixel, the strength in tenths, the
\* channel, the pixel counts and the cast of the build, and the value that
\* comes out.  For a call on an array in memory: the array of the caller, the
\* array the metrics take as the original, and the arrays assigned into.
NoApplication ==
    [op |-> "none", pixel |-> 0, neighbour |-> 0, filtered |-> 0, strength |-> 0,
     channel |-> "", low |-> 0, high |-> 0, build |-> "", shifted |-> 0, out |-> 0,
     channels |-> 0, caller |-> 0, original |-> 0, written |-> {}, raised |-> FALSE,
     uniform |-> FALSE, variance |-> 0, adaptive_strength |-> 0, avg |-> 0, avg_gray |-> 0,
     p1 |-> 0, p99 |-> 0, zero_divide |-> FALSE, steps |-> <<>>]

\* the record of a computation of metrics: the function, the two pixel arrays
\* (their dtype and their values row by row), what normalize_image returned,
\* the cast of the build, two model outputs, and the values that come out
NoMeasure ==
    [op |-> "none", dtype |-> "", original |-> <<>>, processed |-> <<>>, normalized |-> <<>>,
     build |-> "", outputs |-> <<>>, hr_batch |-> <<>>,
     psnr |-> NoneValue, ssim |-> NoneValue, histogram_similarity |-> NoneValue,
     edge_preservation |-> NoneValue, per_model |-> <<>>]

\* the record of a run of a tool on files: the tool and its arguments, the
\* step that fails, whether it raised and what it returned; the files of
\* temp_uploads, of train/HR and of train/LR after it; the items of a dataset;
\* the channel order of the array read, processed and handed to imwrite and
\* the colours of the file written
NoRun ==
    [op |-> "none", n |-> 0, failing |-> "", raised |-> FALSE, status |-> 0,
     created |-> {}, temp_uploads |-> {}, hr |-> {}, lr |-> {}, valid |-> FALSE,
     items |-> <<>>, read |-> <<>>, processed |-> <<>>, written |-> <<>>]

SlotsInit ==
    /\ _srcnn_model = None
    /\ _realesrgan_model = None
    /\ srcnn_attempts = 0
    /\ esrgan_attempts = 0

\* the programs of the repository that are modelled: a process that calls
\* the functions of src/pipeline.py one after another, one that calls its
\* entry points (process_image_cli.py, app_gradio.py), the Flask server of
\* app_simple.py that calls it from its request threads, the Flask server
\* of app.py, and a caller of single operators
Programs == {"pipeline", "entry", "threaded", "app", "operators", "metrics", "files"}

Init ==
    /\ program \in Programs
    /\ SlotsInit
    /\ calls = 0
    /\ last = NoCall
    /\ ThreadInit
    /\ AppInit
    /\ applied = NoApplication
    /\ measured = NoMeasure
    /\ files = NoRun

\* a call of load_srcnn_model(model_path, device)
LoadSrcnnModel ==
    /\ calls < MaxCalls
    /\ \E model_path \in ModelPaths, device \in Devices, ckpt \in Checkpoints :
        LET r == load_srcnn_model(_srcnn_model, model_path, device, ckpt, srcnn_attempts + 1)
        IN  /\ _srcnn_model' = r.slot
            /\ srcnn_attempts' = srcnn_attempts + (IF r.attempted THEN 1 ELSE 0)
            /\ last' = [NoCall EXCEPT !.op = "load_srcnn_model", !.model_was = _srcnn_model,
                                      !.model = r.ret, !.attempted = r.attempted]
    /\ calls' = calls + 1
    /\ UNCHANGED <<_realesrgan_model, esrgan_attempts, thread_vars, app_vars, operator_vars, tool_vars>>

\* a call of load_realesrgan_model()
LoadRealesrganModel ==
    /\ calls < MaxCalls
    /\ \E pkg_ok \in BOOLEAN :
        LET r == load_realesrgan_model(_realesrgan_model, pkg_ok, esrgan_attempts + 1)
        IN  /\ _realesrgan_model' = r.slot
            /\ esrgan_attempts' = esrgan_attempts + (IF r.attempted THEN 1 ELSE 0)
            /\ last' = [NoCall EXCEPT !.op = "load_realesrgan_model", !.model_was = _realesrgan_model,
                                      !.model = r.ret, !.attempted = r.attempted]
    /\ calls' = calls + 1
    /\ UNCHANGED <<_srcnn_model, srcnn_attempts, thread_vars, app_vars, operator_vars, tool_vars>>

\* a call of apply_srcnn_enhancement(image, scale_factor)
ApplySrcnnEnhancement ==
    /\ calls < MaxCalls
    /\ \E shape \in Shapes, scale_factor \in ScaleFactors, ckpt \in Checkpoints :
        LET r == load_srcnn_model(_srcnn_model, "model/srcnn_best.pth", "cpu", ckpt, srcnn_attempts + 1)
        IN  /\ _srcnn_model' = r.slot
            /\ srcnn_attempts' = srcnn_attempts + (IF r.attempted THEN 1 ELSE 0)
            /\ last' = [NoCall EXCEPT !.op = "apply_srcnn_enhancement", !.shape = shape,
                                      !.scale_factor = scale_factor, !.method = "srcnn",
                                      !.model_was = _srcnn_model, !.model = r.ret,
                                      !.attempted = r.attempted,
                                      !.result = srcnn_enhancement(r, shape, scale_factor)]
    /\ calls' = calls + 1
    /\ UNCHANGED <<_realesrgan_model, esrgan_attempts, thread_vars, app_vars, operator_vars, tool_vars>>

\* a call of apply_realesrgan_enhancement(image, scale_factor)
ApplyRealesrganEnhancement ==
    /\ calls < MaxCalls
    /\ \E shape \in Shapes, scale_factor \in ScaleFactors, pkg_ok \in BOOLEAN :
        LET r == load_realesrgan_model(_realesrgan_model, pkg_ok, esrgan_attempts + 1)
        IN  /\ _realesrgan_model' = r.slot
            /\ esrgan_attempts' = esrgan_attempts + (IF r.attempted THEN 1 ELSE 0)
            /\ last' = [NoCall EXCEPT !.op = "apply_realesrgan_enhancement", !.shape = shape,
                                      !.scale_factor = scale_factor, !.method = "realesrgan",
                                      !.model_was = _realesrgan_model, !.model = r.ret,
                                      !.attempted = r.attempted,
                                      !.result = realesrgan_enhancement(r, shape, scale_factor)]
    /\ calls' = calls + 1
    /\ UNCHANGED <<_srcnn_model, srcnn_attempts, thread_vars, app_vars, operator_vars, tool_vars>>

\* a call of apply_enhancement(image, scale_factor, method): the slot of the
\* method is loaded only when the pre-processing did not raise
ApplyEnhancement ==
    /\ calls < MaxCalls
    /\ \E shape \in Shapes, scale_factor \in ScaleFactors, method \in MethodNames :
       \E ckpt \in (IF method = "srcnn" THEN Checkpoints ELSE {Missing}),
          pkg_ok \in (IF method = "realesrgan" THEN BOOLEAN ELSE {FALSE}) :
        LET pre == Then(Then(apply_color_correction(shape), apply_white_balance), enhance_contrast_adaptive)
            rs == IF method = "srcnn" /\ ~pre.raised
                  THEN load_srcnn_model(_srcnn_model, "model/srcnn_best.pth", "cpu", ckpt, srcnn_attempts + 1)
                  ELSE Loaded(_srcnn_model, None, FALSE)
            re == IF method = "realesrgan" /\ ~pre.raised
                  THEN load_realesrgan_model(_realesrgan_model, pkg_ok, esrgan_attempts + 1)
                  ELSE Loaded(_realesrgan_model, None, FALSE)
            r == IF method = "srcnn" THEN rs ELSE re
        IN  /\ _srcnn_model' = rs.slot
            /\ srcnn_attempts' = srcnn_attempts + (IF rs.attempted THEN 1 ELSE 0)
            /\ _realesrgan_model' = re.slot
            /\ esrgan_attempts' = esrgan_attempts + (IF re.attempted THEN 1 ELSE 0)
            /\ last' = [NoCall EXCEPT !.op = "apply_enhancement", !.shape = shape,
                                      !.scale_factor = scale_factor, !.method = method,
                                      !.model_was = IF method = "srcnn" THEN _srcnn_model
                                                    ELSE IF method = "realesrgan" THEN _realesrgan_model
                                                    ELSE None,
                                      !.model = r.ret,
                                      !.attempted = r.attempted,
                                      !.branch = enhancement_branch(method),
                                      !.kernel = IF pre.raised THEN "" ELSE upscale_kernel(r, method),
                                      !.result = enhancement(r, shape, scale_factor, method)]
    /\ calls' = calls + 1
    /\ UNCHANGED <<thread_vars, app_vars, operator_vars, tool_vars>>

\* a call of apply_restoration(image, params) with the default params
ApplyRestoration ==
    /\ calls < MaxCalls
    /\ \E shape \in Shapes :
        last' = [NoCall EXCEPT !.op = "apply_restoration", !.shape = shape,
                               !.result = apply_restoration(shape)]
    /\ calls' = calls + 1
    /\ UNCHANGED <<_srcnn_model, _realesrgan_model, srcnn_attempts, esrgan_attempts, thread_vars, app_vars, operator_vars, tool_vars>>

\* a direct call of verify_image(image), as app_gradio.py makes
VerifyImage ==
    /\ calls < MaxCalls
    /\ \E image \in Arguments :
        last' = [NoCall EXCEPT !.op = "verify_image", !.ndarray = image.ndarray, !.shape = image.shape,
                               !.result = IF verify_image(image).raised THEN Raise ELSE Ok(image.shape)]
    /\ calls' = calls + 1
    /\ UNCHANGED <<_srcnn_model, _realesrgan_model, srcnn_attempts, esrgan_attempts, thread_vars, app_vars, operator_vars, tool_vars>>

\* the arrays the callers hand to process_image_for_gradio: np.array of a PIL
\* image of mode L or P (2-D), RGB, RGBA (four channels), or an array that
\* verify_image accepted
GradioShapes == Shapes \cup {<<h, w, 4>> : h \in 1..MaxDim, w \in 1..MaxDim}

\* whether apply_enhancement gets as far as its super-resolution step
ReachesUpscale(shape) ==
    ~Then(Then(apply_color_correction(shape), apply_white_balance), enhance_contrast_adaptive).raised

\* the state change of an entry point: `reached` says whether its
\* apply_enhancement call gets to the load of the method's model, and
\* entry(r) is the outcome of the entry point given the outcome r of that load
EntryPoint(op, image, enhancement_type, enhancement_method, scale_factor, ckpt, pkg_ok, reached, entry(_)) ==
    LET rs == IF enhancement_method = "srcnn" /\ reached
              THEN load_srcnn_model(_srcnn_model, "model/srcnn_best.pth", "cpu", ckpt, srcnn_attempts + 1)
              ELSE Loaded(_srcnn_model, None, FALSE)
        re == IF enhancement_method = "realesrgan" /\ reached
              THEN load_realesrgan_model(_realesrgan_model, pkg_ok, esrgan_attempts + 1)
              ELSE Loaded(_realesrgan_model, None, FALSE)
        r == IF enhancement_method = "srcnn" THEN rs ELSE re
        e == entry(r)
    IN  /\ _srcnn_model' = rs.slot
        /\ srcnn_attempts' = srcnn_attempts + (IF rs.attempted THEN 1 ELSE 0)
        /\ _realesrgan_model' = re.slot
        /\ esrgan_attempts' = esrgan_attempts + (IF re.attempted THEN 1 ELSE 0)
        /\ last' = [NoCall EXCEPT !.op = op, !.shape = image,
                                  !.enhancement_type = enhancement_type,
                                  !.method = enhancement_method, !.scale_factor = scale_factor,
                                  !.model = r.ret, !.attempted = r.attempted,
                                  !.branch = IF reached THEN enhancement_branch(enhancement_method) ELSE "",
                                  !.kernel = IF reached THEN upscale_kernel(r, enhancement_method) ELSE "",
                                  !.result = IF e.raised THEN Raise ELSE Ok(e.shape),
                                  !.trace = e.trace, !.bgr_image = e.bgr_image,
                                  !.metrics = e.metrics, !.report = e.report]

\* a call of process_image_for_gradio; in restoration mode the method and the
\* scale factor are the defaults of the signature
ProcessImageForGradio ==
    /\ calls < MaxCalls
    /\ \E image \in GradioShapes, enhancement_type \in EnhancementTypes :
       \E enhancement_method \in (IF enhancement_type = "enhancement" THEN Methods ELSE {"opencv"}),
          scale_factor \in (IF enhancement_type = "enhancement" THEN ScaleFactors ELSE {2}) :
       \E ckpt \in (IF enhancement_method = "srcnn" THEN Checkpoints ELSE {Missing}),
          pkg_ok \in (IF enhancement_method = "realesrgan" THEN BOOLEAN ELSE {FALSE}) :
        LET reached == /\ enhancement_type = "enhancement"
                       /\ ~verify_image(Array(image)).raised
                       /\ ReachesUpscale(image)
            entry(r) == process_image_for_gradio(r, image, enhancement_type, enhancement_method, scale_factor)
        IN  EntryPoint("process_image_for_gradio", image, enhancement_type, enhancement_method,
                       scale_factor, ckpt, pkg_ok, reached, entry)
    /\ calls' = calls + 1
    /\ UNCHANGED <<thread_vars, app_vars, operator_vars, tool_vars>>

\* a call of image_enhancement_pipeline on a path cv2.imread can or cannot read
ImageEnhancementPipeline ==
    /\ calls < MaxCalls
    /\ \E readable \in BOOLEAN, image \in Shapes3, enhancement_type \in EnhancementTypes :
       \E enhancement_method \in (IF enhancement_type = "enhancement" THEN Methods ELSE {"opencv"}),
          scale_factor \in (IF enhancement_type = "enhancement" THEN ScaleFactors ELSE {2}) :
       \E ckpt \in (IF enhancement_method = "srcnn" THEN Checkpoints ELSE {Missing}),
          pkg_ok \in (IF enhancement_method = "realesrgan" THEN BOOLEAN ELSE {FALSE}) :
        LET reached == /\ readable
                       /\ enhancement_type = "enhancement"
                       /\ ~verify_image(Array(image)).raised
                       /\ ReachesUpscale(image)
            entry(r) == image_enhancement_pipeline(r, readable, image, enhancement_type,
                                                   enhancement_method, scale_factor)
        IN  EntryPoint("image_enhancement_pipeline", image, enhancement_type, enhancement_method,
                       scale_factor, ckpt, pkg_ok, reached, entry)
    /\ calls' = calls + 1
    /\ UNCHANGED <<thread_vars, app_vars, operator_vars, tool_vars>>

NextPipeline ==
    \/ LoadSrcnnModel
    \/ LoadRealesrganModel
    \/ ApplySrcnnEnhancement
    \/ ApplyRealesrganEnhancement
    \/ ApplyEnhancement
    \/ ApplyRestoration

SpecPipeline == (Init /\ program = "pipeline") /\ [][NextPipeline /\ UNCHANGED program]_vars

\* the entry points as the command line, Gradio and app_simple.py call them
NextEntry ==
    \/ VerifyImage
    \/ ProcessImageForGradio
    \/ ImageEnhancementPipeline

SpecEntry == (Init /\ program = "entry") /\ [][NextEntry /\ UNCHANGED program]_vars

----------------------------------------------------------------------------
(* Claims about the model slots and the enhancement path (SpecPipeline) *)

\* the call recorded in `last` returned an image of the input's size times scale_factor
ScaledResult ==
    /\ ~last.result.raised
    /\ last.result.shape[1] = last.shape[1] * last.scale_factor
    /\ last.result.shape[2] = last.shape[2] * last.scale_factor

\* C4: when the load of the SRCNN checkpoint or of the Real-ESRGAN package
\* fails, apply_srcnn_enhancement and apply_realesrgan_enhancement, and
\* apply_enhancement on a BGR image through them, raise nothing and return the
\* interpolated image of size (H*s) x (W*s).
C4_FallbackOnMissingModel ==
    /\ (/\ last.op \in {"apply_srcnn_enhancement", "apply_realesrgan_enhancement"}
        /\ last.attempted /\ last.model = None) => ScaledResult
    /\ (/\ last.op = "apply_enhancement" /\ last.method \in {"srcnn", "realesrgan"}
        /\ last.shape \in Shapes3
        /\ last.attempted /\ last.model = None) => ScaledResult

C4_Witness ==
    /\ last.op = "apply_enhancement" /\ last.method = "srcnn"
    /\ last.attempted /\ last.model = None
    /\ last.shape = <<2, 1, 3>> /\ last.scale_factor = 4
    /\ last.result = Ok(<<8, 4, 3>>)

\* C5: a failed load is recorded for good, so that each slot sees at most one
\* load attempt over any sequence of calls.
C5_AtMostOneAttempt == srcnn_attempts <= 1 /\ esrgan_attempts <= 1

\* C6: once a slot holds a model, every later load_srcnn_model /
\* load_realesrgan_model call, whatever its arguments, returns that same
\* instance, leaves the slot as it is and attempts no load.
C6_Memoized ==
    [][ /\ (_srcnn_model # None /\ calls' # calls /\ last'.op = "load_srcnn_model")
            => /\ last'.model = _srcnn_model
               /\ _srcnn_model' = _srcnn_model
               /\ srcnn_attempts' = srcnn_attempts
        /\ (_realesrgan_model # None /\ calls' # calls /\ last'.op = "load_realesrgan_model")
            => /\ last'.model = _realesrgan_model
               /\ _realesrgan_model' = _realesrgan_model
               /\ esrgan_attempts' = esrgan_attempts ]_vars

C6_Witness ==
    /\ last.op = "load_srcnn_model"
    /\ last.model_was # None
    /\ last.model = last.model_was
    /\ _srcnn_model = last.model_was
    /\ srcnn_attempts = 1
    /\ calls >= 2

\* C8: apply_enhancement(image, s, method) on a BGR image returns an image of
\* height H*s and width W*s for every method and every s in {2, 4}, with the
\* slot unavailable or loaded, whatever scale factor the checkpoint carries.
C8_EnhancementScales ==
    (last.op = "apply_enhancement" /\ last.shape \in Shapes3) => ScaledResult

----------------------------------------------------------------------------
(* Claims about verify_image, the entry points and their metrics (SpecEntry) *)

\* the call recorded in `last` is one of the two entry points
EntryCall == last.op \in {"process_image_for_gradio", "image_enhancement_pipeline"}

\* position of the first call of `name` in the trace of the last call, 0 if none
FirstCall(name) ==
    IF \E i \in 1..Len(last.trace) : last.trace[i] = name
    THEN CHOOSE i \in 1..Len(last.trace) :
            /\ last.trace[i] = name
            /\ \A j \in 1..(i - 1) : last.trace[j] # name
    ELSE 0

\* the entry point got as far as calling apply_restoration or apply_enhancement
OperatorsCalled == FirstCall("apply_restoration") > 0 \/ FirstCall("apply_enhancement") > 0

\* C11: when the processed image has other dimensions than the original
\* (enhancement mode), get_comprehensive_metrics gives no numeric psnr or ssim
\* and the report of image_enhancement_pipeline / process_image_for_gradio
\* prints none.
C11_MismatchUnavailable ==
    (/\ EntryCall /\ ~last.result.raised
     /\ (last.result.shape[1] # last.shape[1] \/ last.result.shape[2] # last.shape[2]))
    => /\ last.metrics.psnr.kind # "number"
       /\ last.metrics.ssim.kind # "number"
       /\ last.report.psnr # Text("<psnr> dB")
       /\ last.report.ssim # Text("<ssim>")

\* C13: verify_image raises exactly for an argument that is not an array, has
\* a number of dimensions other than 2 or 3, has three dimensions with a
\* channel count outside {1, 3}, or has a dimension of 0; and each entry
\* point calls verify_image before apply_restoration / apply_enhancement,
\* which it does not call at all when verify_image raised.
C13_VerifyImage ==
    /\ last.op = "verify_image"
       => (last.result.raised <=>
             \/ ~last.ndarray
             \/ Len(last.shape) \notin {2, 3}
             \/ (Len(last.shape) = 3 /\ last.shape[3] \notin {1, 3})
             \/ \E i \in 1..Len(last.shape) : last.shape[i] < 1)
    /\ (EntryCall /\ OperatorsCalled)
       => /\ FirstCall("verify_image") > 0
          /\ FirstCall("verify_image") < FirstCall(Processing(last.enhancement_type))
          /\ ~verify_image(Array(last.bgr_image)).raised

C13_Witness ==
    /\ last.op = "verify_image"
    /\ last.ndarray /\ last.shape = <<0, 1, 3>>
    /\ last.result.raised

\* C14: every array verify_image accepts (2-D and H x W x 1 included) reaches
\* the operators of process_image_for_gradio as a 3-channel array, and no
\* operator of apply_restoration / apply_enhancement fails on it.
C14_ThreeChannelsBeforeOperators ==
    (last.op = "process_image_for_gradio" /\ OperatorsCalled)
    => /\ Len(last.bgr_image) = 3 /\ last.bgr_image[3] = 3
       /\ ~last.result.raised

----------------------------------------------------------------------------
(* load_srcnn_model / load_realesrgan_model run by concurrent request      *)
(* threads (Flask, threaded=True).  The functions take no lock, so a       *)
(* thread can be preempted between the None test, the load, the store of   *)
(* the global and the return.                                              *)

Threads == 1..NThreads

LoadFunctions == {"load_srcnn_model", "load_realesrgan_model"}

\* the global a load function reads and writes
Slot(f) == IF f = "load_srcnn_model" THEN _srcnn_model ELSE _realesrgan_model

\* a request thread enters one of the load functions
Call(t) ==
    /\ pc[t] = "idle"
    /\ calls < MaxCalls
    /\ \E f \in LoadFunctions : fn' = [fn EXCEPT ![t] = f]
    /\ loaded' = [loaded EXCEPT ![t] = None]
    /\ pc' = [pc EXCEPT ![t] = "test"]
    /\ calls' = calls + 1
    /\ UNCHANGED <<_srcnn_model, _realesrgan_model, srcnn_attempts, esrgan_attempts, last,
                   ret, app_vars, operator_vars, tool_vars>>

\* if _srcnn_model is not None / if _realesrgan_model is not None
TestSlot(t) ==
    /\ pc[t] = "test"
    /\ pc' = [pc EXCEPT ![t] = IF Slot(fn[t]) # None THEN "cached" ELSE "load"]
    /\ UNCHANGED <<pipeline_vars, fn, loaded, ret, app_vars, operator_vars, tool_vars>>

\* return _srcnn_model / return _realesrgan_model on the cached branch
ReturnCached(t) ==
    /\ pc[t] = "cached"
    /\ ret' = [ret EXCEPT ![t] = Slot(fn[t])]
    /\ pc' = [pc EXCEPT ![t] = "idle"]
    /\ UNCHANGED <<pipeline_vars, fn, loaded, app_vars, operator_vars, tool_vars>>

\* the try block up to the assignment of the global: load_model_checkpoint,
\* or the imports and the RealESRGANer constructor
RunLoad(t) ==
    /\ pc[t] = "load"
    /\ IF fn[t] = "load_srcnn_model"
       THEN /\ \E ckpt \in Checkpoints :
                LET checkpoint == load_model_checkpoint(ckpt, srcnn_attempts + 1)
                IN  /\ loaded' = [loaded EXCEPT ![t] = checkpoint.model]
                    /\ pc' = [pc EXCEPT ![t] = IF checkpoint.raised THEN "except" ELSE "store"]
            /\ srcnn_attempts' = srcnn_attempts + 1
            /\ UNCHANGED esrgan_attempts
       ELSE /\ \E pkg_ok \in BOOLEAN :
                /\ loaded' = [loaded EXCEPT ![t] =
                                 IF pkg_ok THEN [id |-> esrgan_attempts + 1, scale_factor |-> 4] ELSE None]
                /\ pc' = [pc EXCEPT ![t] = IF pkg_ok THEN "store" ELSE "except"]
            /\ esrgan_attempts' = esrgan_attempts + 1
            /\ UNCHANGED srcnn_attempts
    /\ UNCHANGED <<_srcnn_model, _realesrgan_model, calls, last, fn, ret, app_vars, operator_vars, tool_vars>>

\* except Exception: return None
ReturnNone(t) ==
    /\ pc[t] = "except"
    /\ ret' = [ret EXCEPT ![t] = None]
    /\ pc' = [pc EXCEPT ![t] = "idle"]
    /\ UNCHANGED <<pipeline_vars, fn, loaded, app_vars, operator_vars, tool_vars>>

\* _srcnn_model = checkpoint['model'] / _realesrgan_model = upsampler
StoreSlot(t) ==
    /\ pc[t] = "store"
    /\ IF fn[t] = "load_srcnn_model"
       THEN _srcnn_model' = loaded[t] /\ UNCHANGED _realesrgan_model
       ELSE _realesrgan_model' = loaded[t] /\ UNCHANGED _srcnn_model
    /\ pc' = [pc EXCEPT ![t] = "return"]
    /\ UNCHANGED <<srcnn_attempts, esrgan_attempts, calls, last, fn, loaded, ret, app_vars, operator_vars, tool_vars>>

\* return _srcnn_model (the global, read again) / return upsampler (the local)
ReturnLoaded(t) ==
    /\ pc[t] = "return"
    /\ ret' = [ret EXCEPT ![t] = IF fn[t] = "load_srcnn_model" THEN _srcnn_model ELSE loaded[t]]
    /\ pc' = [pc EXCEPT ![t] = "idle"]
    /\ UNCHANGED <<pipeline_vars, fn, loaded, app_vars, operator_vars, tool_vars>>

NextThreads ==
    \E t \in Threads :
        \/ Call(t)
        \/ TestSlot(t)
        \/ ReturnCached(t)
        \/ RunLoad(t)
        \/ ReturnNone(t)
        \/ StoreSlot(t)
        \/ ReturnLoaded(t)

SpecThreads == (Init /\ program = "threaded") /\ [][NextThreads /\ UNCHANGED program]_vars

\* C7: when request threads call load_srcnn_model (or load_realesrgan_model)
\* concurrently, the load is executed by at most one of them (no two calls
\* each build an instance) and all of them obtain the same instance.
C7_ComputeOncePublishOnce ==
    \A t1, t2 \in Threads :
        (t1 # t2 /\ fn[t1] = fn[t2]) =>
            /\ ~(loaded[t1] # None /\ loaded[t2] # None)
            /\ (pc[t1] = "idle" /\ pc[t2] = "idle" /\ ret[t1] # None /\ ret[t2] # None)
                   => ret[t1] = ret[t2]

----------------------------------------------------------------------------
(* src/app.py: process_single_image *)

\* the smallest side for which the SSIM step is run
MinSsimSide == 7

\* sides of the uploaded images: degenerate, just below and at the SSIM window
UploadSides == {1, MinSsimSide - 1, MinSsimSide}

\* a PIL image: its size (w, h), its mode, and the operations applied since it was decoded
NoImage == [size |-> <<0, 0>>, mode |-> "", ops |-> <<>>]

\* the upload: an undecodable byte stream, or an image file of some mode and size
Uploads ==
    {[decodable |-> FALSE, mode |-> "", size |-> <<0, 0>>]} \cup
    {[decodable |-> TRUE, mode |-> m, size |-> <<w, h>>] :
        m \in {"RGB", "L"}, w \in UploadSides, h \in UploadSides}

\* request.form as received: scale_factor is still a string
Forms == [enhancement_type : {"restauracion", "enhancement"},
          enhancement_method : AppMethods,
          scale_factor : {"2", "4", "abc"}]

\* what the environment lets succeed during one request: the Pillow filters,
\* the write into temp_uploads/, the PNG encoding of the result, the SSIM call
\* with the multichannel keyword, the re-open and PNG encoding of the fallback
Environments == [filter_ok : BOOLEAN, save_ok : BOOLEAN, encode_ok : BOOLEAN,
                 ssim_ok : BOOLEAN, reencode_ok : BOOLEAN]

\* int(form_data.get('scale_factor', 2))
int(str) ==
    IF str = "2" THEN [raised |-> FALSE, value |-> 2]
    ELSE IF str = "4" THEN [raised |-> FALSE, value |-> 4]
    ELSE [raised |-> TRUE, value |-> 0]

\* Image.open(file) followed by convert('RGB') when the mode is not RGB
Image_open(file) ==
    IF ~file.decodable THEN [raised |-> TRUE, image |-> NoImage]
    ELSE [raised |-> FALSE, image |-> [size |-> file.size, mode |-> "RGB", ops |-> <<>>]]

\* image.filter(...) / ImageEnhance.X(image).enhance(f): same size, one more operation
Filter(image, op) == [image EXCEPT !.ops = Append(@, op)]

\* image.resize((new_w, new_h), kernel)
Image_resize(image, new_w, new_h, kernel) == [image EXCEPT !.size = <<new_w, new_h>>, !.ops = Append(@, kernel)]

\* module globals of app.py
MODELS_AVAILABLE == FALSE

\* whether the name cv2 is bound in app.py (the module never imports it)
cv2_imported == FALSE

\* explainability_bound as it would be if the report's name were assigned
explainability_bound_defined == TRUE

\* whether the name `explainability` used to build the report is bound (it is
\* assigned neither in process_single_image nor at module level)
explainability_bound == FALSE

\* apply_beauty_face_filters: the cv2 chain when cv2 is bound, else the except
\* branch with the Pillow filters, which does not resize
apply_beauty_face_filters(image, enhancement_type, scale_factor) ==
    IF cv2_imported
    THEN LET img_array == Filter(image, "cv2 beauty chain")
             scaled == IF enhancement_type = "enhancement" /\ scale_factor > 1
                       THEN Image_resize(img_array, image.size[1] * scale_factor,
                                         image.size[2] * scale_factor, "resize INTER_CUBIC")
                       ELSE img_array
         IN  Filter(scaled, "GaussianBlur(3,3)")
    ELSE Filter(Filter(Filter(Filter(image, "UnsharpMask(2,200,5)"), "SMOOTH_MORE"),
                       "Contrast(1.2)"), "Brightness(1.1)")

\* lines 787-857: the dispatch on enhancement_method; gives processed and method
Dispatch(image, enhancement_type, enhancement_method, scale_factor) ==
    LET w == image.size[1]
        h == image.size[2]
        new_w == w * scale_factor
        new_h == h * scale_factor
    IN
    IF enhancement_method = "srcnn" THEN
        IF enhancement_type = "enhancement" /\ scale_factor > 1
        THEN [processed |-> Image_resize(image, new_w, new_h, "resize LANCZOS"),
              method |-> "SRCNN (Interpolacion Avanzada)"]
        ELSE [processed |-> Filter(image, "UnsharpMask(1,150,3)"),
              method |-> "SRCNN Restauracion (Unsharp Mask)"]
    ELSE IF enhancement_method = "real-esrgan" THEN
        IF MODELS_AVAILABLE /\ enhancement_type = "enhancement"
        THEN [processed |-> Image_resize(image, new_w, new_h, "esrgan_model.enhance"),
              method |-> "Real-ESRGAN (Modelo SOTA)"]
        \* the else branch resizes whatever the enhancement_type
        ELSE [processed |-> Filter(Image_resize(image, new_w, new_h, "resize BICUBIC"), "DETAIL"),
              method |-> "Real-ESRGAN Fallback"]
    ELSE IF enhancement_method = "gfpgan" THEN
        IF MODELS_AVAILABLE
        THEN [processed |-> Filter(image, "gfpgan_model.enhance"),
              method |-> "GFPGAN Restauracion Facial (SOTA)"]
        ELSE [processed |-> Filter(Filter(image, "UnsharpMask(2,150,3)"), "SMOOTH_MORE"),
              method |-> "GFPGAN Fallback (Restauracion Basica)"]
    ELSE IF enhancement_method = "beauty_face" THEN
        [processed |-> apply_beauty_face_filters(image, enhancement_type, scale_factor),
         method |-> IF enhancement_type = "enhancement" THEN "Beauty Face Pro" ELSE "Beauty Face Restauracion"]
    ELSE
        IF enhancement_type = "enhancement" /\ scale_factor > 1
        THEN [processed |-> Filter(Filter(Filter(Image_resize(image, new_w, new_h, "resize LANCZOS"),
                                "UnsharpMask(1,150,3)"), "Contrast(1.2)"), "Brightness(1.1)"),
              method |-> "OpenCV Enhanced (Super-Resolucion + Mejoras)"]
        ELSE [processed |-> Filter(Filter(Filter(Filter(image,
                                "UnsharpMask(2,200,5)"), "Contrast(1.3)"), "Brightness(1.1)"), "Sharpness(1.5)"),
              method |-> "OpenCV Pro (Restauracion Avanzada)"]

\* lines 861-865: peak_signal_noise_ratio raises on arrays of different shapes
\* and the except clause turns that into None; the measured value is
\* represented by one number
psnr_step(original, processed) ==
    IF original.size = processed.size THEN Num(30) ELSE NoneValue

\* lines 867-877: SSIM only from 7 x 7 up; any exception of
\* structural_similarity (shape mismatch, the multichannel keyword) gives None
ssim_step(original, processed, env) ==
    LET min_side == IF original.size[1] < original.size[2] THEN original.size[1] ELSE original.size[2]
    IN  IF min_side >= MinSsimSide
        THEN IF original.size = processed.size /\ env.ssim_ok THEN Num(1) ELSE NoneValue
        ELSE NoneValue

\* lines 889-898: the texts of the report
FormatPsnr(psnr) == IF psnr # NoneValue THEN Text("<psnr> dB") ELSE Text("N/A - Imagen demasiado pequena")
FormatSsim(ssim) == IF ssim # NoneValue THEN Text("<ssim>") ELSE Text("N/A - Imagen demasiado pequena")

StatusSuccess == "Procesamiento Exitoso"
StatusFallback == "Procesamiento basico (imagen original)"
StatusError == "Error critico"

\* the try block left by an exception: whether the local `image` was bound by
\* then, and what had been written into temp_uploads/
Failed(image_bound, saved) ==
    [raised |-> TRUE, image_bound |-> image_bound, saved |-> saved,
     processed |-> NoImage, method |-> "", psnr |-> NoneValue, ssim |-> NoneValue]

\* lines 772-916: the try block of process_single_image, statement by statement
TryBlock(file, form, env) ==
    LET scale_factor == int(form.scale_factor)
        opened == Image_open(file)
    IN
    IF scale_factor.raised THEN Failed(FALSE, NoImage)
    ELSE IF opened.raised THEN Failed(FALSE, NoImage)
    ELSE IF ~env.filter_ok THEN Failed(TRUE, NoImage)
    ELSE
        LET image == opened.image
            d == Dispatch(image, form.enhancement_type, form.enhancement_method, scale_factor.value)
            psnr == psnr_step(image, d.processed)
            ssim == ssim_step(image, d.processed, env)
        IN
        IF ~env.save_ok THEN Failed(TRUE, NoImage)
        ELSE IF ~env.encode_ok THEN Failed(TRUE, d.processed)
        ELSE IF ~explainability_bound THEN Failed(TRUE, d.processed)
        ELSE [raised |-> FALSE, image_bound |-> TRUE, saved |-> d.processed,
              processed |-> d.processed, method |-> d.method, psnr |-> psnr, ssim |-> ssim]

\* the record returned to the caller; the failure record has neither an image
\* nor a top-level 'metrics' entry
Record(success, status, has_image, image, method, report_metrics, has_metrics, metrics) ==
    [used |-> TRUE, raised |-> FALSE, success |-> success, status |-> status,
     has_image |-> has_image, image |-> image, method |-> method,
     report_metrics |-> report_metrics, has_metrics |-> has_metrics, metrics |-> metrics]

NA == [psnr |-> Text("N/A"), ssim |-> Text("N/A")]

\* lines 918-975: the except clause; image.seek(0) needs the local `image`,
\* then the upload is opened again and encoded as PNG
Fallback(file, try, env) ==
    LET orig_image == Image_open(file)
    IN  IF ~try.image_bound \/ orig_image.raised \/ ~env.reencode_ok
        THEN Record(FALSE, StatusError, FALSE, NoImage, "Error", NA, FALSE, NA)
        ELSE Record(TRUE, StatusFallback, TRUE, orig_image.image, "Fallback - Imagen original",
                    NA, TRUE, [psnr |-> Num(0), ssim |-> Num(0)])

\* process_single_image(file, form_data): the record returned
process_single_image(file, form, env) ==
    LET try == TryBlock(file, form, env)
    IN  IF try.raised
        THEN Fallback(file, try, env)
        ELSE Record(TRUE, StatusSuccess, TRUE, try.processed, try.method,
                    [psnr |-> FormatPsnr(try.psnr), ssim |-> FormatSsim(try.ssim)],
                    TRUE, [psnr |-> try.psnr, ssim |-> try.ssim])

\* one request served by process_single_image
ProcessSingleImage ==
    /\ request = NoRequest
    /\ \E file \in Uploads, form \in Forms, env \in Environments :
        /\ request' = [used |-> TRUE, file |-> file, form |-> form, env |-> env]
        /\ response' = process_single_image(file, form, env)
        /\ temp_uploads' = LET saved == TryBlock(file, form, env).saved
                           IN  IF saved = NoImage THEN temp_uploads ELSE Append(temp_uploads, saved)
    /\ UNCHANGED <<pipeline_vars, thread_vars, operator_vars, tool_vars>>

NextApp == ProcessSingleImage

SpecApp == (Init /\ program = "app") /\ [][NextApp /\ UNCHANGED program]_vars

----------------------------------------------------------------------------
(* src/src/utils/postprocessing.py and preprocessing.py on pixel values *)

\* 8-bit values used for a pixel, its neighbours and the output of a filter
PixelValues == {0, 100, 110, 255}

\* strength arguments, in tenths: 0, the defaults 0.2 and 0.5, and 1
Strengths == {0, 2, 5, 10}

\* cv::saturate_cast<uchar>
saturate_cast(x) == IF x < 0 THEN 0 ELSE IF x > 255 THEN 255 ELSE x

\* cvRound(n / 10): to the nearest integer, a tie to the even one
cvRound10(n) ==
    LET q == n \div 10
        rem == n % 10
    IN  IF rem < 5 THEN q
        ELSE IF rem > 5 THEN q + 1
        ELSE IF q % 2 = 0 THEN q ELSE q + 1

\* cv2.addWeighted(src1, alpha, src2, beta, 0) on one 8-bit value, the
\* weights in tenths
addWeighted(src1, alpha, src2, beta) == saturate_cast(cvRound10(src1 * alpha + src2 * beta))

\* cv2.filter2D(image, -1, kernel * strength) with the kernel
\* [[-1,-1,-1],[-1,9,-1],[-1,-1,-1]] at a pixel whose eight neighbours all
\* have the value `neighbour`
filter2D(pixel, neighbour, strength) == saturate_cast(cvRound10(strength * (9 * pixel - 8 * neighbour)))

\* apply_sharpening with the blend weights of apply_edge_enhancement: the
\* image keeps its full weight
sharpening_additive(pixel, neighbour, strength) ==
    IF strength <= 0 THEN pixel
    ELSE LET sharpened == filter2D(pixel, neighbour, strength)
         IN  addWeighted(pixel, 10, sharpened, strength)

\* apply_sharpening(image, strength) at one pixel
sharpening(pixel, neighbour, strength) ==
    IF strength <= 0 THEN pixel
    ELSE LET sharpened == filter2D(pixel, neighbour, strength)
         IN  addWeighted(pixel, 10 - strength, sharpened, strength)

\* apply_compression_artifact_reduction(image, strength) at one pixel,
\* `bilateral` being the value medianBlur and bilateralFilter give for it
compression_artifact_reduction(pixel, bilateral, strength) ==
    IF strength <= 0 THEN pixel
    ELSE addWeighted(pixel, 10 - strength, bilateral, strength)

\* apply_edge_enhancement(image, strength) at one pixel, `laplacian` being the
\* value of convertScaleAbs(Laplacian(gray)) for it
edge_enhancement(pixel, laplacian, strength) == addWeighted(pixel, 10, laplacian, strength)

\* the a and b values of the 8-bit LAB image cv2.cvtColor gives for BGR
\* pixels: a from 42 (green) to 226 (magenta), b from 20 (blue) to 222 (yellow)
ChromaRange(channel) == IF channel = "a" THEN <<42, 226>> ELSE <<20, 222>>

\* the store of a float into a uint8 array (result[:, :, 1] = ...): the
\* fraction is dropped; a value outside 0..255 is not defined by C, and
\* comes out modulo 256 or saturated depending on the build
astype_uint8(num, den, build) ==
    LET truncated == IF num >= 0 THEN num \div den ELSE -((-num) \div den)
    IN  IF build = "wraps" THEN truncated % 256 ELSE saturate_cast(truncated)

Builds == {"wraps", "saturates"}

\* apply_color_correction on a chrominance channel whose pixels add up to
\* `total` over `count` pixels: value - (mean - 128) * 0.5, stored back into
\* the uint8 LAB array
color_correction(value, total, count, build) ==
    astype_uint8(2 * count * value - (total - 128 * count), 2 * count, build)

\* the value color_correction computes before the store, fraction dropped
color_correction_shifted(value, total, count) ==
    LET num == 2 * count * value - (total - 128 * count)
    IN  IF num >= 0 THEN num \div (2 * count) ELSE -((-num) \div (2 * count))

\* apply_white_balance at one pixel of a channel with gain avg_gray / avg
\* (in tenths): np.clip(..., 0, 255).astype(np.uint8)
white_balance(pixel, gain) == saturate_cast((pixel * gain) \div 10)

----------------------------------------------------------------------------
(* Arrays in memory: which array each operator assigns into *)

\* `ref` is the array the local name `image` refers to, `next` the id of the
\* next array to be created, `written` the arrays assigned into after their
\* creation
Memory(ref) == [ref |-> ref, next |-> ref + 1, written |-> {}]

\* a call that returns a new array (cvtColor, astype, copy, resize, a filter)
New(m) == [m EXCEPT !.ref = m.next, !.next = m.next + 1]

\* an assignment into the array (result[:, :, i] = ...)
Assign(m) == [m EXCEPT !.written = @ \cup {m.ref}]

\* apply_color_correction with result bound to the argument itself
color_correction_inplace(m) == New(Assign(m))

\* apply_color_correction: result = cvtColor(image); result[:, :, 1] = ...;
\* return cvtColor(result)
color_correction_mem(m) == New(Assign(New(m)))

\* apply_white_balance: img_float = image.astype(); img_float[:, :, 0] = ...;
\* return np.clip(img_float).astype()
white_balance_mem(m) == New(Assign(New(m)))

\* apply_bilateral_denoise: the argument itself when strength <= 0
bilateral_denoise_mem(m, strength) == IF strength <= 0 THEN m ELSE New(m)

\* apply_morphological_operations: result = image.copy(); result[:, :, i] = ...
morphological_operations_mem(m) == Assign(New(m))

\* apply_clahe: lab = cvtColor(image); lab[:, :, 0] = ...; return cvtColor(lab)
clahe_mem(m) == New(Assign(New(m)))

\* apply_compression_artifact_reduction: the argument itself when strength <= 0
compression_artifact_reduction_mem(m, strength) == IF strength <= 0 THEN m ELSE New(m)

\* apply_adaptive_sharpening: the strength is clipped to 0.1 at least, so
\* apply_sharpening returns the array of addWeighted
adaptive_sharpening_mem(m) == New(m)

\* apply_edge_enhancement: the array of addWeighted
edge_enhancement_mem(m) == New(m)

\* final_contrast_adjustment: img_yuv = cvtColor(image); img_yuv[:, :, 0] = ...;
\* return cvtColor(img_yuv.astype())
final_contrast_adjustment_mem(m) == New(Assign(New(m)))

\* apply_hdr_tone_mapping: works on image.astype()
hdr_tone_mapping_mem(m) == New(m)

\* apply_restoration(image, params) on a BGR array
restoration_mem(m, denoise, compression_reduction) ==
    final_contrast_adjustment_mem(
    edge_enhancement_mem(
    adaptive_sharpening_mem(
    compression_artifact_reduction_mem(
    clahe_mem(
    morphological_operations_mem(
    bilateral_denoise_mem(
    white_balance_mem(
    color_correction_mem(m)), denoise))), compression_reduction))))

\* apply_enhancement(image, ...) on a BGR array: the upscaling step returns a
\* new array on every branch
enhancement_mem(m) ==
    hdr_tone_mapping_mem(adaptive_sharpening_mem(New(clahe_mem(white_balance_mem(color_correction_mem(m))))))

\* what a call leaves behind: the arrays assigned into, the array the metrics
\* take as the original, and whether the call raised
Left(m, original, raised) == [written |-> m.written, original |-> original, raised |-> raised]

\* apply_restoration / apply_enhancement called on the caller's array: on an
\* array without three channels the first cvtColor raises before any assignment
operators_mem(m, enhancement_type, channels, denoise, compression_reduction) ==
    IF channels # 3 THEN Left(m, m.ref, TRUE)
    ELSE IF enhancement_type = "restauracion"
    THEN Left(restoration_mem(m, denoise, compression_reduction), m.ref, FALSE)
    ELSE Left(enhancement_mem(m), m.ref, FALSE)

\* process_image_for_gradio on the caller's array: bgr_image is a new array
\* for H x W x 3 and the caller's array otherwise; original_bgr = bgr_image
gradio_mem(m, enhancement_type, channels, denoise, compression_reduction) ==
    LET bgr_image == IF channels = 3 THEN New(m) ELSE m
    IN  operators_mem(bgr_image, enhancement_type, channels, denoise, compression_reduction)

----------------------------------------------------------------------------
(* Direct applications of the operators *)

\* apply_sharpening(image, strength)
ApplySharpening ==
    /\ \E pixel \in PixelValues, neighbour \in PixelValues, strength \in Strengths :
        applied' = [NoApplication EXCEPT !.op = "apply_sharpening", !.pixel = pixel,
                                         !.neighbour = neighbour, !.strength = strength,
                                         !.out = sharpening(pixel, neighbour, strength)]
    /\ UNCHANGED <<pipeline_vars, thread_vars, app_vars, tool_vars>>

\* apply_compression_artifact_reduction(image, strength)
ApplyCompressionArtifactReduction ==
    /\ \E pixel \in PixelValues, bilateral \in PixelValues, strength \in Strengths :
        applied' = [NoApplication EXCEPT !.op = "apply_compression_artifact_reduction", !.pixel = pixel,
                                         !.filtered = bilateral, !.strength = strength,
                                         !.out = compression_artifact_reduction(pixel, bilateral, strength)]
    /\ UNCHANGED <<pipeline_vars, thread_vars, app_vars, tool_vars>>

\* apply_edge_enhancement(image, strength)
ApplyEdgeEnhancement ==
    /\ \E pixel \in PixelValues, laplacian \in PixelValues, strength \in Strengths :
        applied' = [NoApplication EXCEPT !.op = "apply_edge_enhancement", !.pixel = pixel,
                                         !.filtered = laplacian, !.strength = strength,
                                         !.out = edge_enhancement(pixel, laplacian, strength)]
    /\ UNCHANGED <<pipeline_vars, thread_vars, app_vars, tool_vars>>

\* apply_color_correction(image) on an image with `low` pixels at the lowest
\* and `high` pixels at the highest value of the channel; one pixel is observed
ApplyColorCorrection ==
    /\ \E channel \in {"a", "b"}, low \in 0..MaxCount, high \in 0..MaxCount, build \in Builds :
        /\ low + high >= 1
        /\ \E i \in {1, 2} :
            LET value == ChromaRange(channel)[i]
                total == low * ChromaRange(channel)[1] + high * ChromaRange(channel)[2]
            IN  /\ (i = 1 => low >= 1) /\ (i = 2 => high >= 1)
                /\ applied' = [NoApplication EXCEPT
                                  !.op = "apply_color_correction", !.channel = channel,
                                  !.low = low, !.high = high, !.build = build, !.pixel = value,
                                  !.shifted = color_correction_shifted(value, total, low + high),
                                  !.out = color_correction(value, total, low + high, build)]
    /\ UNCHANGED <<pipeline_vars, thread_vars, app_vars, tool_vars>>

\* apply_white_balance(image), seen at one pixel
ApplyWhiteBalance ==
    /\ \E pixel \in PixelValues, gain \in {5, 10, 30} :
        applied' = [NoApplication EXCEPT !.op = "apply_white_balance", !.pixel = pixel,
                                         !.strength = gain,
                                         !.out = white_balance(pixel, gain)]
    /\ UNCHANGED <<pipeline_vars, thread_vars, app_vars, tool_vars>>

\* apply_restoration / apply_enhancement / process_image_for_gradio called on
\* an array of the caller, which is array 1
CallOnArray ==
    /\ \E op \in {"apply_restoration", "apply_enhancement", "process_image_for_gradio"},
          channels \in {1, 3}, denoise \in Strengths, compression_reduction \in Strengths,
          enhancement_type \in {"restauracion", "enhancement"} :
        LET m == Memory(1)
            left == IF op = "process_image_for_gradio"
                    THEN gradio_mem(m, enhancement_type, channels, denoise, compression_reduction)
                    ELSE operators_mem(m, IF op = "apply_restoration" THEN "restauracion" ELSE "enhancement",
                                       channels, denoise, compression_reduction)
        IN  applied' = [NoApplication EXCEPT !.op = op, !.channels = channels, !.caller = 1,
                                             !.strength = denoise, !.filtered = compression_reduction,
                                             !.original = left.original, !.written = left.written,
                                             !.raised = left.raised]
    /\ UNCHANGED <<pipeline_vars, thread_vars, app_vars, tool_vars>>

----------------------------------------------------------------------------
(* The operators on images without detail, and the order of the chain *)

\* cv2.Laplacian(blur, CV_64F).var() of apply_adaptive_sharpening: 0 for an
\* image of one value, and two values of images with detail
Variances == {0, 90, 990}

\* apply_adaptive_sharpening(image, strength) at one pixel, the strengths in
\* tenths: strength * (1.0 / (variance / 100.0 + 0.1)) clipped to [0.1, 2.0]
adaptive_strength(strength, variance) ==
    LET adaptive == (strength * 100) \div (variance + 10)
    IN  IF adaptive < 1 THEN 1 ELSE IF adaptive > 20 THEN 20 ELSE adaptive

adaptive_sharpening(pixel, neighbour, strength, variance) ==
    sharpening(pixel, neighbour, adaptive_strength(strength, variance))

\* the luminance channel of an image with `low` pixels of value a and `high`
\* pixels of value b >= a, sorted: position i of 0..low + high - 1
Sorted(a, b, low, high, i) == IF i < low THEN a ELSE b

\* np.percentile(channel, q) in hundredths: linear interpolation between the
\* two values around position q / 100 * (n - 1)
percentile(a, b, low, high, q) ==
    LET n == low + high
        k == (q * (n - 1)) \div 100
        frac == (q * (n - 1)) % 100
    IN  IF k + 1 >= n THEN 100 * Sorted(a, b, low, high, k)
        ELSE 100 * Sorted(a, b, low, high, k)
             + frac * (Sorted(a, b, low, high, k + 1) - Sorted(a, b, low, high, k))

\* final_contrast_adjustment(image, 'auto') at a pixel of luminance y:
\* np.clip((y - p1) / (p99 - p1) * 255, 0, 255) stored into the uint8 YUV
\* array.  With p99 = p1 numpy divides by zero: the quotient is nan for
\* y = p1 and +-inf otherwise; np.clip leaves nan as it is, and the value a
\* nan is stored as is not defined (`undefined` stands for it).
final_contrast_adjustment_px(y, a, b, low, high, undefined) ==
    LET p1 == percentile(a, b, low, high, 1)
        p99 == percentile(a, b, low, high, 99)
        num == (100 * y - p1) * 255
        den == p99 - p1
    IN  IF den = 0
        THEN [zero_divide |-> TRUE, nan |-> num = 0, p1 |-> p1, p99 |-> p99,
              out |-> IF num = 0 THEN undefined ELSE IF num > 0 THEN 255 ELSE 0]
        ELSE [zero_divide |-> FALSE, nan |-> FALSE, p1 |-> p1, p99 |-> p99,
              out |-> IF num <= 0 THEN 0 ELSE IF num >= 255 * den THEN 255 ELSE num \div den]

\* apply_white_balance on one channel of mean avg, avg_gray being the mean of
\* the three channel means: scaled by avg_gray / avg if avg > 0, else left
white_balance_channel(pixel, avg, avg_gray) ==
    IF avg > 0 THEN saturate_cast((pixel * avg_gray) \div avg) ELSE pixel

\* the operators apply_restoration calls, in the order of its statements
restoration_steps ==
    <<"apply_color_correction", "apply_white_balance", "apply_bilateral_denoise",
      "apply_morphological_operations", "enhance_contrast_adaptive",
      "apply_compression_artifact_reduction", "apply_adaptive_sharpening",
      "apply_edge_enhancement", "final_contrast_adjustment">>

\* the calls apply_restoration(image, params) makes on an array of `channels`
\* channels: on an array without three channels the first cvtColor raises
apply_restoration_steps(channels) ==
    IF channels # 3 THEN [raised |-> TRUE, steps |-> SubSeq(restoration_steps, 1, 1)]
    ELSE [raised |-> FALSE, steps |-> restoration_steps]

\* apply_adaptive_sharpening(image, strength), seen at one pixel
ApplyAdaptiveSharpening ==
    /\ \E pixel \in PixelValues, neighbour \in PixelValues, strength \in Strengths,
          variance \in Variances :
        /\ variance = 0 <=> pixel = neighbour
        /\ applied' = [NoApplication EXCEPT
                          !.op = "apply_adaptive_sharpening", !.pixel = pixel,
                          !.neighbour = neighbour, !.strength = strength,
                          !.uniform = (variance = 0), !.variance = variance,
                          !.adaptive_strength = adaptive_strength(strength, variance),
                          !.out = adaptive_sharpening(pixel, neighbour, strength, variance)]
    /\ UNCHANGED <<pipeline_vars, thread_vars, app_vars, tool_vars>>

\* final_contrast_adjustment(image) on an image with `low` pixels of luminance
\* a and `high` pixels of luminance b; one pixel is observed
FinalContrastAdjustment ==
    /\ \E a \in PixelValues, b \in PixelValues, low \in 0..MaxDim, high \in 0..MaxDim,
          i \in {1, 2}, undefined \in PixelValues :
        /\ a <= b
        /\ low + high >= 1
        /\ (i = 1 => low >= 1) /\ (i = 2 => high >= 1)
        /\ LET y == IF i = 1 THEN a ELSE b
               r == final_contrast_adjustment_px(y, a, b, low, high, undefined)
           IN  /\ r.nan \/ undefined = 0
               /\ applied' = [NoApplication EXCEPT
                                 !.op = "final_contrast_adjustment", !.pixel = y,
                                 !.low = low, !.high = high,
                                 !.uniform = (a = b \/ low = 0 \/ high = 0),
                                 !.p1 = r.p1, !.p99 = r.p99,
                                 !.zero_divide = r.zero_divide, !.out = r.out]
    /\ UNCHANGED <<pipeline_vars, thread_vars, app_vars, tool_vars>>

\* apply_white_balance(image), seen at one pixel of one channel; a channel of
\* mean 0 holds only pixels of value 0
WhiteBalanceChannel ==
    /\ \E pixel \in PixelValues, avg \in {0, 50, 100}, avg_gray \in {50, 100} :
        /\ avg = 0 => pixel = 0
        /\ applied' = [NoApplication EXCEPT
                          !.op = "apply_white_balance_channel", !.pixel = pixel,
                          !.avg = avg, !.avg_gray = avg_gray,
                          !.out = white_balance_channel(pixel, avg, avg_gray)]
    /\ UNCHANGED <<pipeline_vars, thread_vars, app_vars, tool_vars>>

\* apply_restoration(image, params): the operators it calls
CallRestoration ==
    /\ \E channels \in {1, 3}, denoise \in Strengths, compression_reduction \in Strengths :
        LET r == apply_restoration_steps(channels)
        IN  applied' = [NoApplication EXCEPT
                           !.op = "apply_restoration_steps", !.channels = channels,
                           !.strength = denoise, !.filtered = compression_reduction,
                           !.raised = r.raised, !.steps = r.steps]
    /\ UNCHANGED <<pipeline_vars, thread_vars, app_vars, tool_vars>>

NextOperators ==
    \/ ApplySharpening
    \/ ApplyCompressionArtifactReduction
    \/ ApplyEdgeEnhancement
    \/ ApplyColorCorrection
    \/ ApplyWhiteBalance
    \/ CallOnArray
    \/ ApplyAdaptiveSharpening
    \/ FinalContrastAdjustment
    \/ WhiteBalanceChannel
    \/ CallRestoration

SpecOperators == (Init /\ program = "operators") /\ [][NextOperators /\ UNCHANGED program]_vars

----------------------------------------------------------------------------
(* src/src/utils/imagen.py and metrics.py on pixel values *)

\* pixel arrays: one row of up to MaxDim values.  uint8 arrays hold
\* PixelValues; float arrays hold values of [0, 1] or values on the 0..255
\* scale, 510 being out of range
Rows(values) == UNION {[1..w -> values] : w \in 1..MaxDim}
Uint8Images == [dtype : {"uint8"}, px : Rows(PixelValues)]
FloatImages == [dtype : {"float32", "float64"}, px : Rows({0, 1}) \cup Rows({0, 255, 510})]

\* ndarray.max()
RECURSIVE Max(_)
Max(px) == IF Len(px) = 1 THEN px[1]
           ELSE LET m == Max(Tail(px)) IN IF px[1] > m THEN px[1] ELSE m

\* normalize_image without the uint8 test and the test of the range: every
\* array is taken to hold values of [0, 1]
normalize_image_unit(image) ==
    LET clip(v) == IF v < 0 THEN 0 ELSE IF v > 1 THEN 1 ELSE v
    IN  [dtype |-> "uint8", px |-> [i \in DOMAIN image.px |-> clip(image.px[i]) * 255]]

\* normalize_image(image): a uint8 array is returned as it is; any other is
\* divided by 255 when its maximum is above 1.0, clipped to [0, 1], multiplied
\* by 255 and cast.  The values used are those the float arithmetic is exact
\* for (0, 1, and multiples of 255).
normalize_image_px(image) ==
    IF image.dtype = "uint8" THEN image
    ELSE LET clip(v) == IF v < 0 THEN 0 ELSE IF v > 1 THEN 1 ELSE v
             scaled(v) == IF Max(image.px) > 1 THEN v \div 255 ELSE v
         IN  [dtype |-> "uint8", px |-> [i \in DOMAIN image.px |-> clip(scaled(image.px[i])) * 255]]

\* float('inf')
Inf == [kind |-> "inf", num |-> 0, text |-> ""]

\* the sum of the squared differences of two arrays of the same shape
RECURSIVE SquaredError(_, _)
SquaredError(original, processed) ==
    IF original = <<>> THEN 0
    ELSE (original[1] - processed[1]) * (original[1] - processed[1])
         + SquaredError(Tail(original), Tail(processed))

\* calculate_psnr on two arrays of the same shape: inf when the mean squared
\* error is 0, else 20 * log10(255 / sqrt(mse)), a finite float that is
\* represented here by the squared error it is computed from
calculate_psnr_px(original, processed) ==
    LET mse == SquaredError(original, processed)
    IN  IF mse = 0 THEN Inf ELSE Num(mse)

\* BGR images of one row whose pixels have b = g = r: the row of grey values.
\* Their grey image, their V channel and each of their channels is that row.
GrayLevels == {0, 100}
GrayRows == UNION {[1..w -> GrayLevels] : w \in 1..MaxWidth}

\* cv::borderInterpolate with BORDER_REFLECT_101, the default border of
\* Sobel and GaussianBlur, for positions 1..len
reflect101(p, len) ==
    IF len = 1 THEN 1
    ELSE LET period == 2 * (len - 1)
             q == (p - 1) % period
         IN  IF q < len THEN q + 1 ELSE period - q + 1

\* np.sqrt(grad_x**2 + grad_y**2) of the two cv2.Sobel(gray, CV_64F, ., ., ksize=3)
\* at position i of a one-row image: the rows above and below are the row
\* itself, so the vertical derivative is 0 and the horizontal one is
\* (1 + 2 + 1) * (row[i + 1] - row[i - 1])
gradient(row, i) ==
    LET grad_x == 4 * (row[reflect101(i + 1, Len(row))] - row[reflect101(i - 1, Len(row))])
    IN  IF grad_x < 0 THEN -grad_x ELSE grad_x

\* grad.astype(np.uint8)
gradient_uint8(row, build) == [i \in DOMAIN row |-> astype_uint8(gradient(row, i), 1, build)]

\* cv2.getGaussianKernel(11, 0): sigma = 0.3 * ((11 - 1) * 0.5 - 1) + 0.8 = 2,
\* the weights exp(-k * k / 8) in hundredths of their sum, rounded
GaussianKernel == <<1, 3, 7, 12, 18, 20, 18, 12, 7, 3, 1>>

RECURSIVE SumSeq(_)
SumSeq(seq) == IF seq = <<>> THEN 0 ELSE Head(seq) + SumSeq(Tail(seq))

KernelTotal == SumSeq(GaussianKernel)

\* cv2.GaussianBlur(row, (11, 11), 0) at position i, times KernelTotal: on one
\* row the vertical pass leaves the row as it is
RECURSIVE GaussianBlur(_, _, _)
GaussianBlur(row, i, k) ==
    IF k = 0 THEN 0
    ELSE GaussianKernel[k] * row[reflect101(i + k - 6, Len(row))] + GaussianBlur(row, i, k - 1)

\* C1 = (0.01 * 255) ** 2 and C2 = (0.03 * 255) ** 2, times KernelTotal squared
SsimC1 == (65025 * KernelTotal * KernelTotal) \div 10000
SsimC2 == 9 * SsimC1

\* a quotient of two floats, in hundredths
Hundredths(num, den) == num \div (den \div 100)

\* ssim_map at position i, in ten-thousandths: the luminance factor
\* (2 mu1 mu2 + C1) / (mu1^2 + mu2^2 + C1) times the structure factor
\* (2 sigma12 + C2) / (sigma1^2 + sigma2^2 + C2)
ssim_map(original, processed, i) ==
    LET T == KernelTotal
        times(a, b) == [j \in DOMAIN a |-> a[j] * b[j]]
        mu1 == GaussianBlur(original, i, 11)
        mu2 == GaussianBlur(processed, i, 11)
        sigma1_sq == GaussianBlur(times(original, original), i, 11) * T - mu1 * mu1
        sigma2_sq == GaussianBlur(times(processed, processed), i, 11) * T - mu2 * mu2
        sigma12 == GaussianBlur(times(original, processed), i, 11) * T - mu1 * mu2
    IN  Hundredths(2 * mu1 * mu2 + SsimC1, mu1 * mu1 + mu2 * mu2 + SsimC1)
        * Hundredths(2 * sigma12 + SsimC2, sigma1_sq + sigma2_sq + SsimC2)

\* the sum of ssim_map over the positions 1..i
RECURSIVE MapSum(_, _, _)
MapSum(original, processed, i) ==
    IF i = 0 THEN 0 ELSE ssim_map(original, processed, i) + MapSum(original, processed, i - 1)

\* calculate_ssim on two arrays of the same shape: np.mean(ssim_map), in
\* ten-thousandths
calculate_ssim_px(original, processed) ==
    Num(MapSum(original, processed, Len(original)) \div Len(original))

\* cv2.calcHist([image], [channel], None, [256], [0, 256]): the number of
\* pixels of each value
calcHist(row) == [v \in 0..255 |-> Cardinality({i \in DOMAIN row : row[i] = v})]

\* the bins of a histogram that are not empty
Filled(hist) == {v \in DOMAIN hist : hist[v] > 0}

\* the sum over the bins of hist1 * hist2; the bins outside `bins` add 0
RECURSIVE BinSum(_, _, _)
BinSum(hist1, hist2, bins) ==
    IF bins = {} THEN 0
    ELSE LET v == CHOOSE v \in bins : TRUE
         IN  hist1[v] * hist2[v] + BinSum(hist1, hist2, bins \ {v})

\* the integer part of a square root
Isqrt(n, upper) == CHOOSE r \in 0..upper : r * r <= n /\ n < (r + 1) * (r + 1)

\* cv2.compareHist(hist1, hist2, HISTCMP_CORREL) in thousandths: the
\* correlation of the bins, 1 when a histogram has no variance.  The
\* histograms are compared as counts: cv2.normalize multiplies each by a
\* positive number, which leaves the correlation as it is.
compareHist(hist1, hist2) ==
    LET ones == [v \in 0..255 |-> 1]
        s1 == BinSum(hist1, ones, Filled(hist1))
        s2 == BinSum(hist2, ones, Filled(hist2))
        num == 256 * BinSum(hist1, hist2, Filled(hist1) \cap Filled(hist2)) - s1 * s2
        denom1 == 256 * BinSum(hist1, hist1, Filled(hist1)) - s1 * s1
        denom2 == 256 * BinSum(hist2, hist2, Filled(hist2)) - s2 * s2
    IN  IF denom1 * denom2 = 0 THEN 1000
        ELSE (1000 * num) \div Isqrt(denom1 * denom2, IF denom1 > denom2 THEN denom1 ELSE denom2)

\* calculate_histogram_similarity: (correlation + 1) / 2, in thousandths
calculate_histogram_similarity(original, processed) ==
    Num((compareHist(calcHist(original), calcHist(processed)) + 1000) \div 2)

\* calculate_edge_preservation: calculate_ssim of the two gradient images
\* cast to uint8, in ten-thousandths
calculate_edge_preservation(original, processed, build) ==
    calculate_ssim_px(gradient_uint8(original, build), gradient_uint8(processed, build))

\* get_comprehensive_metrics on two images of the same shape
get_comprehensive_metrics_px(original, processed, build) ==
    [psnr |-> calculate_psnr_px(original, processed),
     ssim |-> calculate_ssim_px(original, processed),
     histogram_similarity |-> calculate_histogram_similarity(original, processed),
     edge_preservation |-> calculate_edge_preservation(original, processed, build)]

----------------------------------------------------------------------------
(* src/src/metrics.py: SRMetrics and evaluate_model *)

\* a batch: one row of tensor values
Batches == Rows({0, 1})

\* torchmetrics PeakSignalNoiseRatio(data_range=1.0)(preds, target): inf when
\* the mean squared error is 0, else a finite value, represented by the
\* squared error
PeakSignalNoiseRatio(preds, target) ==
    LET mse == SquaredError(preds, target)
    IN  IF mse = 0 THEN Inf ELSE Num(mse)

\* torchmetrics StructuralSimilarityIndexMeasure(data_range=1.0)(preds, target):
\* 1 exactly when the two batches are identical; a value below 1 is not computed
StructuralSimilarityIndexMeasure(preds, target) ==
    IF preds = target THEN Num(1) ELSE Text("below 1")

\* SRMetrics.__call__(lr_batch, hr_batch)
SRMetrics_call(lr_batch, hr_batch) ==
    [psnr |-> PeakSignalNoiseRatio(hr_batch, hr_batch),
     ssim |-> StructuralSimilarityIndexMeasure(hr_batch, hr_batch)]

\* evaluate_model(model, val_loader, device) on a loader of one batch, and the
\* validation loop of train_model: outputs = model(lr_batch);
\* batch_metrics = metrics(lr_batch, hr_batch); the totals divided by 1
evaluate_model(outputs, lr_batch, hr_batch) == SRMetrics_call(lr_batch, hr_batch)

----------------------------------------------------------------------------
(* Computations of metrics on pixel values: a process that computes the     *)
(* metrics of one pair of images                                           *)

\* test_basic.py test_basic_functionality: normalize_image(test_image), then
\* calculate_psnr of the image and the normalized one, both cast to float64
TestBasicFunctionality ==
    /\ measured.op = "none"
    /\ \E test_image \in Uint8Images \cup FloatImages :
        LET normalized == normalize_image_px(test_image)
        IN  measured' = [NoMeasure EXCEPT
                            !.op = "test_basic_functionality", !.dtype = test_image.dtype,
                            !.original = test_image.px, !.normalized = normalized.px,
                            !.processed = normalized.px,
                            !.psnr = calculate_psnr_px(test_image.px, normalized.px)]
    /\ UNCHANGED <<pipeline_vars, thread_vars, app_vars, operator_vars, files>>

\* calculate_psnr(original, processed) on two uint8 arrays of the same shape
CalculatePsnr ==
    /\ measured.op = "none"
    /\ \E original \in Uint8Images, processed \in Uint8Images :
        /\ Len(original.px) = Len(processed.px)
        /\ measured' = [NoMeasure EXCEPT
                            !.op = "calculate_psnr", !.dtype = "uint8",
                            !.original = original.px, !.processed = processed.px,
                            !.psnr = calculate_psnr_px(original.px, processed.px)]
    /\ UNCHANGED <<pipeline_vars, thread_vars, app_vars, operator_vars, files>>

\* get_comprehensive_metrics(original, processed) on two images of the same shape
GetComprehensiveMetrics ==
    /\ measured.op = "none"
    /\ \E original \in GrayRows, processed \in GrayRows, build \in Builds :
        /\ Len(original) = Len(processed)
        /\ LET m == get_comprehensive_metrics_px(original, processed, build)
           IN  measured' = [NoMeasure EXCEPT
                               !.op = "get_comprehensive_metrics", !.dtype = "uint8",
                               !.original = original, !.processed = processed, !.build = build,
                               !.psnr = m.psnr, !.ssim = m.ssim,
                               !.histogram_similarity = m.histogram_similarity,
                               !.edge_preservation = m.edge_preservation]
    /\ UNCHANGED <<pipeline_vars, thread_vars, app_vars, operator_vars, files>>

\* evaluate_model run for two models on the same validation batch, the models
\* being given by the outputs they produce for it
EvaluateModel ==
    /\ measured.op = "none"
    /\ \E lr_batch \in Batches, hr_batch \in Batches, outputs \in [1..2 -> Batches] :
        /\ Len(lr_batch) = Len(hr_batch)
        /\ \A m \in 1..2 : Len(outputs[m]) = Len(hr_batch)
        /\ measured' = [NoMeasure EXCEPT
                            !.op = "evaluate_model", !.original = lr_batch,
                            !.hr_batch = hr_batch, !.outputs = outputs,
                            !.per_model = [m \in 1..2 |-> evaluate_model(outputs[m], lr_batch, hr_batch)]]
    /\ UNCHANGED <<pipeline_vars, thread_vars, app_vars, operator_vars, files>>

NextMetrics ==
    \/ TestBasicFunctionality
    \/ CalculatePsnr
    \/ GetComprehensiveMetrics
    \/ EvaluateModel

SpecMetrics == (Init /\ program = "metrics") /\ [][NextMetrics /\ UNCHANGED program]_vars

----------------------------------------------------------------------------
(* src/app_simple.py: the /process handler and its temporary file *)

\* the file names a request can carry, None standing for a request without
\* the 'image' part
Filenames == {"None", "", "a.png", "a.bmp", "a.txt"}

\* the names that end with .png, .jpg, .jpeg or .bmp
Supported == {"a.png", "a.bmp"}

\* the steps of the handler that can fail once the request is accepted:
\* tempfile.NamedTemporaryFile, file.save, Image.open / np.array,
\* process_image_for_gradio, Image.fromarray / save / b64encode
Steps == <<"NamedTemporaryFile", "save", "open", "process_image_for_gradio", "encode">>
Failures == {"none"} \cup {Steps[i] : i \in DOMAIN Steps}

\* process(): the status returned and the files left in temp_uploads.
\* scale_ok: int(request.form.get('scale_factor', 2)) does not raise.
\* The file is created by NamedTemporaryFile(delete=False); file.save runs
\* inside the with block, before the try whose finally unlinks the file.
process(filename, scale_ok, failing) ==
    LET temp_path == "temp_uploads/tmp" \o filename
        Response(status, created, left) == [status |-> status, created |-> created, temp_uploads |-> left]
    IN  IF filename = "None" THEN Response(400, {}, {})
        ELSE IF filename = "" THEN Response(400, {}, {})
        ELSE IF filename \notin Supported THEN Response(400, {}, {})
        ELSE IF ~scale_ok THEN Response(500, {}, {})
        ELSE IF failing = "NamedTemporaryFile" THEN Response(500, {}, {})
        ELSE IF failing = "save" THEN Response(500, {temp_path}, {temp_path})
        ELSE IF failing \in {"open", "process_image_for_gradio", "encode"}
             THEN Response(500, {temp_path}, {})
        ELSE Response(200, {temp_path}, {})

----------------------------------------------------------------------------
(* src/process_image_cli.py: main *)

\* the channel a position of an array holds: cv2.imread gives B, G, R
imread == <<"B", "G", "R">>

\* cv2.cvtColor(image, cv2.COLOR_RGB2BGR) on a 3-channel array: the first and
\* the third channel change places
COLOR_RGB2BGR(image) == <<image[3], image[2], image[1]>>

\* cv2.imwrite(path, image): the array is taken as B, G, R; the channel of
\* the array each colour of the file comes from
imwrite(image) == [blue |-> image[1], green |-> image[2], red |-> image[3]]

\* image_enhancement_pipeline(path, ...): the operators and normalize_image
\* keep each channel at its position
pipeline_channels(image) == image

\* main(): 0 and the colours of the file written, or 1 and no file
main(exists, readable) ==
    IF ~exists THEN [status |-> 1, read |-> <<>>, processed |-> <<>>, written |-> <<>>]
    ELSE IF ~readable THEN [status |-> 1, read |-> <<>>, processed |-> <<>>, written |-> <<>>]
    ELSE LET image == imread
             processed_image == pipeline_channels(image)
         IN  [status |-> 0, read |-> image, processed |-> processed_image,
              written |-> imwrite(COLOR_RGB2BGR(processed_image))]

----------------------------------------------------------------------------
(* src/generate_dataset.py and src/src/dataset.py: the files of a dataset *)

\* a file name: stem and suffix
File(stem, suffix) == [stem |-> stem, suffix |-> suffix]

\* the suffixes PIL has a writer for, among those used here
Registered == {".png", ".jpg"}

\* Image.save(path): the format is taken from the suffix, and an unknown
\* suffix raises ValueError before the file is opened
save(dir, file) ==
    IF file.suffix \notin Registered THEN [raised |-> TRUE, dir |-> dir]
    ELSE [raised |-> FALSE, dir |-> dir \cup {file}]

\* the loop of create_dataset_structure and of create_synthetic_dataset from
\* iteration i on: the file name is the constant "04d" in every iteration
RECURSIVE create_pairs(_, _, _, _)
create_pairs(hr, lr, i, num_images) ==
    IF i >= num_images THEN [raised |-> FALSE, hr |-> hr, lr |-> lr]
    ELSE LET filename == File("04d", "")
             hr_saved == save(hr, filename)
             lr_saved == save(lr, filename)
         IN  IF hr_saved.raised THEN [raised |-> TRUE, hr |-> hr_saved.dir, lr |-> lr]
             ELSE IF lr_saved.raised THEN [raised |-> TRUE, hr |-> hr_saved.dir, lr |-> lr_saved.dir]
             ELSE create_pairs(hr_saved.dir, lr_saved.dir, i + 1, num_images)

\* create_dataset_structure(base_dir, num_images) on empty directories
create_dataset_structure(num_images) == create_pairs({}, {}, 0, num_images)

\* create_synthetic_dataset(num_samples, output_dir) on empty directories
create_synthetic_dataset(num_samples) == create_pairs({}, {}, 0, num_samples)

\* dir.glob("*.png") + dir.glob("*.jpg")
glob(dir) == {f \in dir : f.suffix \in {".png", ".jpg"}}

\* {f.stem for f in paths}
stems(paths) == {f.stem : f \in paths}

\* validate_dataset(base_dir), the two directories existing
validate_dataset(hr, lr) ==
    LET hr_files == glob(hr)
        lr_files == glob(lr)
    IN  IF Cardinality(hr_files) = 0 THEN FALSE
        ELSE IF Cardinality(lr_files) = 0 THEN FALSE
        ELSE IF Cardinality(hr_files) # Cardinality(lr_files) THEN FALSE
        ELSE IF stems(hr_files) # stems(lr_files) THEN FALSE
        ELSE TRUE

\* the stems of the files of a directory, in the order of their names
StemNames == <<"0001", "0002", "0003", "0004">>
Stems == {StemNames[i] : i \in 1..MaxDim}
Directories == SUBSET {File(stem, suffix) : stem \in Stems, suffix \in {".png", ".jpg"}}

\* sorted(list(dir.glob("*" + suffix))), from the stem at position i on
RECURSIVE sorted_glob(_, _, _)
sorted_glob(dir, suffix, i) ==
    IF i > Len(StemNames) THEN <<>>
    ELSE (IF File(StemNames[i], suffix) \in dir THEN <<File(StemNames[i], suffix)>> ELSE <<>>)
         \o sorted_glob(dir, suffix, i + 1)

\* SuperResolutionDataset.__init__: the .png files sorted, then the .jpg
\* files sorted; the assertion compares the two lengths only
SuperResolutionDataset(hr_dir, lr_dir) ==
    LET hr_files == sorted_glob(hr_dir, ".png", 1) \o sorted_glob(hr_dir, ".jpg", 1)
        lr_files == sorted_glob(lr_dir, ".png", 1) \o sorted_glob(lr_dir, ".jpg", 1)
    IN  IF Len(hr_files) # Len(lr_files) THEN [raised |-> TRUE, hr_files |-> <<>>, lr_files |-> <<>>]
        ELSE [raised |-> FALSE, hr_files |-> hr_files, lr_files |-> lr_files]

\* SuperResolutionDataset.__getitem__(idx): the two paths at position idx
getitem(dataset, idx) == [lr |-> dataset.lr_files[idx], hr |-> dataset.hr_files[idx]]

----------------------------------------------------------------------------
(* Runs of the tools that read and write files: one run per process *)

\* a POST to /process of app_simple.py
Process ==
    /\ files.op = "none"
    /\ \E filename \in Filenames, scale_ok \in BOOLEAN, failing \in Failures :
        LET r == process(filename, scale_ok, failing)
        IN  files' = [NoRun EXCEPT !.op = "process", !.failing = failing,
                                   !.raised = (r.status = 500), !.status = r.status,
                                   !.created = r.created, !.temp_uploads = r.temp_uploads]
    /\ UNCHANGED <<pipeline_vars, thread_vars, app_vars, operator_vars, measured>>

\* a run of process_image_cli.py
Main ==
    /\ files.op = "none"
    /\ \E exists \in BOOLEAN, readable \in BOOLEAN :
        LET r == main(exists, readable)
        IN  files' = [NoRun EXCEPT !.op = "main", !.raised = (exists /\ ~readable),
                                   !.status = r.status, !.read = r.read,
                                   !.processed = r.processed, !.written = r.written]
    /\ UNCHANGED <<pipeline_vars, thread_vars, app_vars, operator_vars, measured>>

\* create_dataset_structure(num_images = n) or create_synthetic_dataset(num_samples = n),
\* followed by validate_dataset when it did not raise
CreateDataset ==
    /\ files.op = "none"
    /\ \E op \in {"create_dataset_structure", "create_synthetic_dataset"}, n \in 0..MaxDim :
        LET r == IF op = "create_dataset_structure"
                 THEN create_dataset_structure(n) ELSE create_synthetic_dataset(n)
        IN  files' = [NoRun EXCEPT !.op = op, !.n = n, !.raised = r.raised,
                                   !.hr = r.hr, !.lr = r.lr,
                                   !.valid = (~r.raised /\ validate_dataset(r.hr, r.lr))]
    /\ UNCHANGED <<pipeline_vars, thread_vars, app_vars, operator_vars, measured>>

\* SuperResolutionDataset(hr_dir, lr_dir) and all its items
ReadDataset ==
    /\ files.op = "none"
    /\ \E hr_dir \in Directories, lr_dir \in Directories :
        LET dataset == SuperResolutionDataset(hr_dir, lr_dir)
        IN  files' = [NoRun EXCEPT !.op = "SuperResolutionDataset", !.raised = dataset.raised,
                                   !.hr = hr_dir, !.lr = lr_dir,
                                   !.items = [idx \in 1..Len(dataset.hr_files) |-> getitem(dataset, idx)]]
    /\ UNCHANGED <<pipeline_vars, thread_vars, app_vars, operator_vars, measured>>

NextFiles ==
    \/ Process
    \/ Main
    \/ CreateDataset
    \/ ReadDataset

SpecFiles == (Init /\ program = "files") /\ [][NextFiles /\ UNCHANGED program]_vars

----------------------------------------------------------------------------
(* Any of the programs *)

Next ==
    /\ \/ program = "pipeline" /\ NextPipeline
       \/ program = "entry" /\ NextEntry
       \/ program = "threaded" /\ NextThreads
       \/ program = "app" /\ NextApp
       \/ program = "operators" /\ NextOperators
       \/ program = "metrics" /\ NextMetrics
       \/ program = "files" /\ NextFiles
    /\ UNCHANGED program

Spec == Init /\ [][Next]_vars

\* a process running one of the two programs that restore an image:
\* apply_restoration of pipeline.py or process_single_image of app.py
NextRestoration ==
    /\ \/ program = "pipeline" /\ NextPipeline
       \/ program = "app" /\ NextApp
    /\ UNCHANGED program

InitRestoration == Init /\ program \in {"pipeline", "app"}

SpecRestoration == InitRestoration /\ [][NextRestoration]_vars

----------------------------------------------------------------------------
(* Claims about process_single_image *)

\* the request was served and its upload is a decodable image
Served == request.used /\ request.file.decodable

\* the decoded upload, as process_single_image holds it in `image`
Original == [size |-> request.file.size, mode |-> "RGB", ops |-> <<>>]

\* scale_factor is one of the integers 2 and 4
ScaleGiven == request.form.scale_factor \in {"2", "4"}

\* every step the environment can fail succeeded
AllStepsOk ==
    /\ request.env.filter_ok /\ request.env.save_ok /\ request.env.encode_ok
    /\ request.env.ssim_ok /\ request.env.reencode_ok

\* C1: for a decodable upload with method opencv and type restauracion, when
\* every step succeeds, process_single_image returns the transformed image
\* (not the original) with the success status and the metrics computed
\* against the original.
C1_SuccessPath ==
    (/\ Served /\ ScaleGiven /\ AllStepsOk
     /\ request.form.enhancement_method = "opencv"
     /\ request.form.enhancement_type = "restauracion")
    => /\ response.success
       /\ response.status = StatusSuccess
       /\ response.has_image /\ response.image.ops # <<>>
       /\ response.metrics.psnr = psnr_step(Original, response.image)

\* C2: when a step fails after the upload was decoded, the record carries the
\* unmodified original and every metrics field, in the report and at the top
\* level, is marked unavailable: none is a number.
C2_FallbackMetricsUnavailable ==
    (Served /\ response.status = StatusFallback)
    => /\ response.has_image /\ response.image = Original
       /\ response.report_metrics.psnr.kind # "number"
       /\ response.report_metrics.ssim.kind # "number"
       /\ response.has_metrics => /\ response.metrics.psnr.kind # "number"
                                  /\ response.metrics.ssim.kind # "number"

\* C3: process_single_image never raises, and for a decodable upload whose
\* fallback re-encoding works, any failure in the try block (a non-integer
\* scale_factor included) yields success = True with the original image.
C3_FailureOnlyWhenFallbackFails ==
    /\ request.used => ~response.raised
    /\ (Served /\ request.env.reencode_ok)
       => (response.success /\ response.has_image
           /\ (response.status = StatusFallback => response.image = Original))

\* C12: for an original with min(H, W) < 7 the metrics are unavailable, never
\* a number: in the metrics get_comprehensive_metrics hands to the entry points
\* of the pipeline, and in the metrics of the record process_single_image returns.
C12_SmallImageUnavailable ==
    /\ (/\ program = "entry" /\ EntryCall /\ ~last.result.raised
        /\ (last.shape[1] < MinSsimSide \/ last.shape[2] < MinSsimSide))
       => /\ last.metrics.psnr.kind # "number"
          /\ last.metrics.ssim.kind # "number"
    /\ (/\ program = "app" /\ Served /\ response.has_metrics
        /\ (request.file.size[1] < MinSsimSide \/ request.file.size[2] < MinSsimSide))
       => /\ response.metrics.psnr.kind # "number"
          /\ response.metrics.ssim.kind # "number"

\* C9: with type enhancement and scale_factor s in {2, 4}, the image returned
\* has width W*s and height H*s for opencv, srcnn, real-esrgan, gfpgan and
\* beauty_face.
C9_AppEnhancementScales ==
    (/\ Served /\ ScaleGiven /\ AllStepsOk
     /\ request.form.enhancement_type = "enhancement"
     /\ request.form.enhancement_method \in {"opencv", "srcnn", "real-esrgan", "gfpgan", "beauty_face"})
    => /\ response.has_image
       /\ response.image.size = <<request.file.size[1] * int(request.form.scale_factor).value,
                                  request.file.size[2] * int(request.form.scale_factor).value>>

\* process_single_image got as far as writing its processed image to temp_uploads
Saved == Served /\ ScaleGiven /\ Len(temp_uploads) > 0

\* C15: each of the eight method names gets an operator chain of its own: in
\* process_single_image no name other than opencv produces what opencv
\* produces for the same request, and in apply_enhancement no name other than
\* opencv is served by the final else branch.
C15_OneBranchPerMethod ==
    /\ (program = "app" /\ Saved /\ request.form.enhancement_method # "opencv")
       => temp_uploads[1] # Dispatch(Original, request.form.enhancement_type, "opencv",
                                     int(request.form.scale_factor).value).processed
    /\ (program = "pipeline" /\ last.op = "apply_enhancement" /\ last.method # "opencv")
       => last.branch # "else"

\* C16: in enhancement mode opencv upscales with bilinear interpolation, the
\* Real-ESRGAN fallback with bicubic and srcnn with Lanczos, in
\* process_single_image and in apply_enhancement when no model is loaded.
C16_KernelByMethod ==
    /\ (/\ program = "app" /\ Saved /\ request.form.enhancement_type = "enhancement"
        /\ Len(temp_uploads[1].ops) > 0)
       => LET kernel == temp_uploads[1].ops[1]
              enhancement_method == request.form.enhancement_method
          IN  /\ enhancement_method = "opencv" => kernel = "resize BILINEAR"
              /\ enhancement_method = "real-esrgan" => kernel = "resize BICUBIC"
              /\ enhancement_method = "srcnn" => kernel = "resize LANCZOS"
    /\ (/\ program = "pipeline" /\ last.op = "apply_enhancement"
        /\ last.kernel # "" /\ last.model = None)
       => /\ last.method = "opencv" => last.kernel = "INTER_LINEAR"
          /\ last.method = "realesrgan" => last.kernel = "INTER_CUBIC"
          /\ last.method = "srcnn" => last.kernel = "INTER_LANCZOS4"

\* the kind of step a Pillow operation of the dispatch is
StepKind(op) ==
    CASE op \in {"UnsharpMask(1,150,3)", "UnsharpMask(2,150,3)", "UnsharpMask(2,200,5)"} -> "unsharp-mask"
      [] op \in {"Contrast(1.2)", "Contrast(1.3)"} -> "contrast"
      [] op = "Brightness(1.1)" -> "brightness"
      [] op = "Sharpness(1.5)" -> "sharpness"
      [] op \in {"resize LANCZOS", "resize BICUBIC", "resize INTER_CUBIC"} -> "resize"
      [] OTHER -> op

\* C17: for method opencv in restoration mode process_single_image applies,
\* each once and in this order: sharpen, unsharp-mask, contrast, brightness,
\* sharpness, edge enhance.
C17_OpencvRestorationSteps ==
    (/\ program = "app" /\ Saved
     /\ request.form.enhancement_method = "opencv"
     /\ request.form.enhancement_type = "restauracion")
    => [i \in 1..Len(temp_uploads[1].ops) |-> StepKind(temp_uploads[1].ops[i])]
       = <<"sharpen", "unsharp-mask", "contrast", "brightness", "sharpness", "edge-enhance">>

----------------------------------------------------------------------------
(* Claims about single operators (SpecOperators) *)

\* C18: apply_sharpening, apply_compression_artifact_reduction and
\* apply_edge_enhancement return the input pixel unchanged at strength 0, and
\* the first two return at strength 1 exactly the filtered value (the kernel
\* response, the median / bilateral value), whatever the input pixel is.
C18_BlendStrength ==
    /\ (/\ applied.op \in {"apply_sharpening", "apply_compression_artifact_reduction",
                          "apply_edge_enhancement"}
        /\ applied.strength = 0)
       => applied.out = applied.pixel
    /\ (applied.op = "apply_sharpening" /\ applied.strength = 10)
       => applied.out = saturate_cast(9 * applied.pixel - 8 * applied.neighbour)
    /\ (applied.op = "apply_compression_artifact_reduction" /\ applied.strength = 10)
       => applied.out = applied.filtered

C18_Witness ==
    /\ applied.op = "apply_sharpening" /\ applied.strength = 10
    /\ applied.pixel = 110 /\ applied.neighbour = 100
    /\ applied.out = 190

\* C19: what an operator stores as an 8-bit value is its result saturated to
\* [0, 255]: in apply_color_correction a shifted chrominance value below 0 is
\* stored as 0 and one above 255 as 255, never modulo 256; apply_white_balance
\* stores a value of 0..255.
C19_Saturated ==
    /\ applied.op = "apply_color_correction" => applied.out = saturate_cast(applied.shifted)
    /\ applied.op = "apply_white_balance" => applied.out \in 0..255

\* C20: apply_restoration, apply_enhancement and process_image_for_gradio
\* assign into no array of the caller, and the array the metrics take as the
\* original has not been assigned into either.
C20_InputNotModified ==
    applied.op \in {"apply_restoration", "apply_enhancement", "process_image_for_gradio"}
    => /\ applied.caller \notin applied.written
       /\ applied.original \notin applied.written

C20_Witness ==
    /\ applied.op = "process_image_for_gradio"
    /\ applied.channels = 3 /\ ~applied.raised
    /\ applied.written # {}
    /\ applied.caller = 1 /\ applied.original = 2
    /\ applied.written \cap {1, 2} = {}

----------------------------------------------------------------------------
(* Claims about the metrics on pixel values (SpecMetrics) *)

\* C21: normalize_image returns a uint8 image pixel for pixel, calculate_psnr
\* of two identical images is +infinity, and so the PSNR of a uint8 image and
\* its normalize_image is +infinity.
C21_NormalizedPsnrPerfect ==
    /\ (measured.op = "test_basic_functionality" /\ measured.dtype = "uint8")
       => /\ measured.normalized = measured.original
          /\ measured.psnr = Inf
    /\ (measured.op = "calculate_psnr" /\ measured.processed = measured.original)
       => measured.psnr = Inf

C21_Witness ==
    /\ measured.op = "test_basic_functionality" /\ measured.dtype = "uint8"
    /\ measured.original = <<100, 255>>
    /\ measured.normalized = <<100, 255>>
    /\ measured.psnr = Inf

\* C22: for two images of the same shape get_comprehensive_metrics returns a
\* histogram_similarity and an edge_preservation that both lie in [0, 1].
C22_MetricsInUnitInterval ==
    measured.op = "get_comprehensive_metrics"
    => /\ measured.histogram_similarity.num \in 0..1000
       /\ measured.edge_preservation.num \in 0..10000

\* C29: the PSNR and SSIM evaluate_model reports for a model are those of the
\* model's output compared with the HR batch, so a model that reproduces the
\* HR batch and one that does not receive different values.
C29_MetricsOfModelOutput ==
    measured.op = "evaluate_model"
    => /\ \A m \in 1..2 :
            /\ measured.per_model[m].psnr = PeakSignalNoiseRatio(measured.outputs[m], measured.hr_batch)
            /\ measured.per_model[m].ssim = StructuralSimilarityIndexMeasure(measured.outputs[m], measured.hr_batch)
       /\ (measured.outputs[1] = measured.hr_batch /\ measured.outputs[2] # measured.hr_batch)
          => measured.per_model[1] # measured.per_model[2]

----------------------------------------------------------------------------
(* Claims about the operators on images without detail and the order of   *)
(* the chain (SpecOperators)                                               *)

\* C23: the operators complete without a division by zero on a 1 x 1 image
\* and on an image of uniform luminance: final_contrast_adjustment does not
\* divide by zero when the 1st and the 99th percentile coincide, and
\* apply_white_balance leaves a channel of mean 0 as it is.
C23_NoZeroDivide ==
    /\ applied.op = "final_contrast_adjustment" => ~applied.zero_divide
    /\ (applied.op = "apply_white_balance_channel" /\ applied.avg = 0)
       => applied.out = applied.pixel

\* the position of an operator in the calls of apply_restoration, 0 if it is
\* not called
Position(name) ==
    IF \E i \in DOMAIN applied.steps : applied.steps[i] = name
    THEN CHOOSE i \in DOMAIN applied.steps : applied.steps[i] = name
    ELSE 0

\* C24: apply_restoration calls color correction, white balance, contrast
\* enhancement, denoising, morphological cleanup, sharpening and edge
\* enhancement in this order, each exactly once, and the final contrast
\* adjustment last.
C24_RestorationOrder ==
    (applied.op = "apply_restoration_steps" /\ ~applied.raised)
    => LET order == <<"apply_color_correction", "apply_white_balance",
                      "enhance_contrast_adaptive", "apply_bilateral_denoise",
                      "apply_morphological_operations", "apply_adaptive_sharpening",
                      "apply_edge_enhancement">>
       IN  /\ \A k \in DOMAIN order :
                Cardinality({i \in DOMAIN applied.steps : applied.steps[i] = order[k]}) = 1
           /\ \A k \in 1..(Len(order) - 1) : Position(order[k]) < Position(order[k + 1])
           /\ applied.steps[Len(applied.steps)] = "final_contrast_adjustment"

\* C25: on an image all of whose pixels equal one value, apply_sharpening
\* with a strength in (0, 1] and apply_adaptive_sharpening with any base
\* strength return that value at every pixel.
C25_SharpeningKeepsFlat ==
    /\ (/\ applied.op = "apply_sharpening"
        /\ applied.strength \in 1..10
        /\ applied.pixel = applied.neighbour)
       => applied.out = applied.pixel
    /\ (applied.op = "apply_adaptive_sharpening" /\ applied.uniform)
       => applied.out = applied.pixel

----------------------------------------------------------------------------
(* Claims about the tools that read and write files (SpecFiles) *)

\* C26: when the /process handler of app_simple returns, every temporary
\* file it created under temp_uploads has been deleted, whether processing
\* succeeded or a step after the creation of the file failed.
C26_TempFileDeleted ==
    files.op = "process" => files.temp_uploads = {}

\* C27: the file the command-line tool writes has the colours of the
\* processed image: its red comes from the red channel of the result and
\* its blue from the blue channel.
C27_ChannelOrderKept ==
    (files.op = "main" /\ files.status = 0)
    => /\ files.written.red = "R"
       /\ files.written.green = "G"
       /\ files.written.blue = "B"

\* C28: create_dataset_structure(num_images = n) and
\* create_synthetic_dataset(num_samples = n), n >= 1, return leaving n files
\* in train/HR and n in train/LR under the same names, and validate_dataset
\* returns True on the result.
C28_DatasetCreated ==
    (files.op \in {"create_dataset_structure", "create_synthetic_dataset"} /\ files.n >= 1)
    => /\ ~files.raised
       /\ Cardinality(files.hr) = files.n
       /\ Cardinality(files.lr) = files.n
       /\ files.hr = files.lr
       /\ files.valid

\* C30: in directories that hold one file per stem, the same stems in both,
\* every item of a SuperResolutionDataset pairs the LR file and the HR file
\* of the same stem, .png and .jpg files mixed or not.
C30_ItemsPairSameStem ==
    (/\ files.op = "SuperResolutionDataset"
     /\ ~files.raised
     /\ stems(files.hr) = stems(files.lr)
     /\ Cardinality(files.hr) = Cardinality(stems(files.hr))
     /\ Cardinality(files.lr) = Cardinality(stems(files.lr)))
    => \A idx \in DOMAIN files.items : files.items[idx].lr.stem = files.items[idx].hr.stem

====
